---------------------------- MODULE Spec2Model ----------------------------
(***************************************************************************)
(* Model of the hostel_eye surveillance control plane:                     *)
(*   - VideoRecorder (src/src/recording/video_recorder.py) with its        *)
(*     reminder thread, at the granularity of one shared attribute access  *)
(*     per step (the code takes no lock anywhere);                         *)
(*   - SecuritySystem (src/main.py): the frame loop and the callbacks;     *)
(*   - TelegramBot (src/src/notifications/telegram_bot.py): the poll loop  *)
(*     and the command dispatch;                                           *)
(*   - ActivityLogger (src/src/logging/activity_logger.py);                *)
(*   - PersonTracker (src/src/tracking/person_tracker.py).                 *)
(*                                                                         *)
(* Time is counted in seconds.  Computation takes no time: the clock       *)
(* advances only when every thread is blocked (a timer in its sleep, the   *)
(* poll loop with nothing to fetch, the frame loop between two frames),    *)
(* and a sleep ends exactly when its delay has elapsed.                    *)
(***************************************************************************)
EXTENDS Integers, Sequences, FiniteSets, TLC

-----------------------------------------------------------------------------
(* Program constants *)

\* Python's None, for attributes that otherwise hold a time, a count or an id
None == -1

\* config.py:50, telegram_chat_id
OwnerChat == 1527878179

\* config.py:35-36, bbox_move_threshold (pixels), recheck_interval (seconds)
move_threshold == 50
recheck_interval == 5
\* config.py:43-44 (seconds)
known_cooldown == 300
unknown_cooldown == 30

\* video_recorder.py:112-114,117
first_interval == 10 * 60
followup_interval == 30 * 60
max_reminders == 3
SleepSecs == 30

-----------------------------------------------------------------------------
(* Bounds of the model *)

\* the number of times the clock advances
MaxTicks == 4
\* the same, while the operator restarts a session
MaxRestartTicks == 2
\* updates that arrive at the bot
MaxUpdates == 2
\* updates sent while the operator names faces
MaxNamings == 3
\* requests to the messaging server that fail with an exception
MaxFailures == 1
\* frames that process_frame examines
MaxChecks == 3
\* detections handed to the logger
MaxEvents == 3
\* frames the capture loop reads
MaxFrames == 1
\* the times the history counts an update handled again
MaxHandled == 2

Timers == {"t1", "t2"}
Threads == {"cmd", "main"} \cup Timers

-----------------------------------------------------------------------------
VARIABLES
  rec,      \* the VideoRecorder object (video_recorder.py:20-30)
  pc,       \* per thread: the statement it is about to execute
  lv,       \* per thread: its local variables
  wake,     \* per timer thread: the time its current sleep ends
  now,      \* the clock (time.time(), datetime.now())
  sys,      \* the SecuritySystem object (main.py:39-45)
  bot,      \* the TelegramBot object (telegram_bot.py:32-35)
  updates,  \* the updates the messaging server holds, in arrival order
  poll,     \* the poll loop's locals: the fetched batch and the place in it
  lg,       \* the ActivityLogger object (last_seen) and its log file (log)
  trk,      \* the PersonTracker object (tracked, last_person_count)
  disk,     \* the files the program keeps: known_faces/<name>.jpg, recordings
  ticks,    \* the number of times the clock has advanced
  hist      \* history of observable effects, written, never read, by the code

\* what the recorder's and the timers' steps leave alone
env == <<sys, bot, updates, poll, lg, trk, disk, ticks>>

vars == <<rec, pc, lv, wake, now, sys, bot, updates, poll, lg, trk, disk, ticks, hist>>

-----------------------------------------------------------------------------
(* Helpers *)

Goto(th, l) == pc' = [pc EXCEPT ![th] = l]

\* Python truthiness of an attribute that holds None, a timestamp or an object
\* (a real timestamp is never 0.0)
Truthy(x) == x # None

SetTmp(th, v) == lv' = [lv EXCEPT ![th].tmp = v]
SetResult(th, v) == lv' = [lv EXCEPT ![th].result = v]

\* An exception raised in method where that no handler of thread th catches:
\* a timer thread ends, the poll loop catches it (telegram_bot.py:76), the
\* capture loop leaves through its finally clause (main.py:278)
RaiseIn(th, where, kind) ==
  /\ hist' = [hist EXCEPT !.errors = @ \cup {<<th, where, kind>>}]
  /\ Goto(th, IF th \in Timers THEN "none" ELSE IF th = "cmd" THEN "c_except" ELSE "m_raise")

-----------------------------------------------------------------------------
(* Text: a Python str is a sequence of one-character strings *)

Letters == <<"a","b","c","d","e","f","g","h","i","j","k","l","m",
             "n","o","p","q","r","s","t","u","v","w","x","y","z">>
Capitals == <<"A","B","C","D","E","F","G","H","I","J","K","L","M",
              "N","O","P","Q","R","S","T","U","V","W","X","Y","Z">>

\* str.lower() on one character
LowerChar(c) ==
  IF \E i \in 1..Len(Capitals) : Capitals[i] = c
    THEN Letters[CHOOSE i \in 1..Len(Capitals) : Capitals[i] = c]
    ELSE c

\* str.lower()
Lower(s) == [i \in 1..Len(s) |-> LowerChar(s[i])]

IsSpace(c) == c = " "

\* str.lstrip(), str.rstrip(), str.strip()
RECURSIVE LStrip(_)
LStrip(s) == IF s # <<>> /\ IsSpace(Head(s)) THEN LStrip(Tail(s)) ELSE s
RECURSIVE RStrip(_)
RStrip(s) == IF s # <<>> /\ IsSpace(s[Len(s)]) THEN RStrip(SubSeq(s, 1, Len(s) - 1)) ELSE s
Strip(s) == RStrip(LStrip(s))

\* str.startswith(p)
StartsWith(s, p) == Len(s) >= Len(p) /\ SubSeq(s, 1, Len(p)) = p

\* the length of the longest prefix of s without a character satisfying the test
RECURSIVE SpanTo(_, _)
SpanTo(s, stop) ==
  IF s = <<>> \/ Head(s) \in stop THEN 0 ELSE 1 + SpanTo(Tail(s), stop)

\* str.split(maxsplit=1): the first word and, when something follows the
\* white space after it, the rest
SplitMax1(s) ==
  LET t == LStrip(s)
      n == SpanTo(t, {" "})
      r == LStrip(SubSeq(t, n + 1, Len(t)))
  IN  IF t = <<>> THEN <<>>
      ELSE IF r = <<>> THEN <<SubSeq(t, 1, n)>>
      ELSE <<SubSeq(t, 1, n), r>>

\* len(str.split()): the number of words
RECURSIVE WordCount(_)
WordCount(s) ==
  LET t == LStrip(s)
      n == SpanTo(t, {" "})
  IN  IF t = <<>> THEN 0 ELSE 1 + WordCount(SubSeq(t, n + 1, Len(t)))

\* str.split("@")[0]
BeforeAt(s) == SubSeq(s, 1, SpanTo(s, {"@"}))

-----------------------------------------------------------------------------
(* VideoRecorder.stop, video_recorder.py:62-79, executed by thread th *)

\* where stop() returns to in its caller
AfterStop(th) == IF th \in Timers THEN "t_break" ELSE IF th = "cmd" THEN "c_stop_reply" ELSE "m_cleanup"

\* line 64-65
stop_chk(th) ==
  /\ pc[th] = "s_chk"
  /\ IF rec.recording
       THEN Goto(th, "s_set") /\ UNCHANGED lv
       ELSE Goto(th, "s_ret") /\ SetResult(th, None)
  /\ UNCHANGED <<rec, wake, now, env, hist>>

\* line 67
stop_set(th) ==
  /\ pc[th] = "s_set"
  /\ rec' = [rec EXCEPT !.recording = FALSE]
  /\ Goto(th, "s_wchk")
  /\ UNCHANGED <<lv, wake, now, env, hist>>

\* line 68
stop_wchk(th) ==
  /\ pc[th] = "s_wchk"
  /\ Goto(th, IF Truthy(rec.writer) THEN "s_rel" ELSE "s_res")
  /\ UNCHANGED <<rec, lv, wake, now, env, hist>>

\* line 69: self.writer is loaded again, then release() is called on it
stop_rel(th) ==
  /\ pc[th] = "s_rel"
  /\ IF rec.writer = None
       THEN RaiseIn(th, "stop", "AttributeError")
       ELSE /\ hist' = [hist EXCEPT !.released[rec.writer] = @ + 1]
            /\ Goto(th, "s_wnone")
  /\ UNCHANGED <<rec, lv, wake, now, env>>

\* line 70
stop_wnone(th) ==
  /\ pc[th] = "s_wnone"
  /\ rec' = [rec EXCEPT !.writer = None]
  /\ Goto(th, "s_res")
  /\ UNCHANGED <<lv, wake, now, env, hist>>

\* line 72
stop_res(th) ==
  /\ pc[th] = "s_res"
  /\ SetResult(th, rec.current_file)
  /\ Goto(th, "s_dur1")
  /\ UNCHANGED <<rec, wake, now, env, hist>>

\* line 73, the condition: if self.start_time
stop_dur1(th) ==
  /\ pc[th] = "s_dur1"
  /\ Goto(th, IF Truthy(rec.start_time) THEN "s_dur2" ELSE "s_cf")
  /\ UNCHANGED <<rec, lv, wake, now, env, hist>>

\* line 73, the value: time.time() - self.start_time
stop_dur2(th) ==
  /\ pc[th] = "s_dur2"
  /\ IF rec.start_time = None
       THEN RaiseIn(th, "stop", "TypeError")
       ELSE Goto(th, "s_cf") /\ UNCHANGED hist
  /\ UNCHANGED <<rec, lv, wake, now, env>>

\* line 76
stop_cf(th) ==
  /\ pc[th] = "s_cf"
  /\ rec' = [rec EXCEPT !.current_file = None]
  /\ Goto(th, "s_fc")
  /\ UNCHANGED <<lv, wake, now, env, hist>>

\* line 77
stop_fc(th) ==
  /\ pc[th] = "s_fc"
  /\ rec' = [rec EXCEPT !.frame_count = 0]
  /\ Goto(th, "s_st")
  /\ UNCHANGED <<lv, wake, now, env, hist>>

\* line 78
stop_st(th) ==
  /\ pc[th] = "s_st"
  /\ rec' = [rec EXCEPT !.start_time = None]
  /\ Goto(th, "s_ret")
  /\ UNCHANGED <<lv, wake, now, env, hist>>

\* lines 65, 79: return; the history counts the calls that returned a file
stop_ret(th) ==
  /\ pc[th] = "s_ret"
  /\ hist' = IF lv[th].result = None
               THEN [hist EXCEPT !.stopnone = @ + 1]
               ELSE [hist EXCEPT !.stopret[lv[th].result] = @ + 1]
  /\ Goto(th, AfterStop(th))
  /\ UNCHANGED <<rec, lv, wake, now, env>>

stop(th) ==
  \/ stop_chk(th) \/ stop_set(th) \/ stop_wchk(th) \/ stop_rel(th)
  \/ stop_wnone(th) \/ stop_res(th) \/ stop_dur1(th) \/ stop_dur2(th)
  \/ stop_cf(th) \/ stop_fc(th) \/ stop_st(th) \/ stop_ret(th)

-----------------------------------------------------------------------------
(* VideoRecorder._reminder_loop, video_recorder.py:109-149, run by timer t *)

\* line 116, then the sleep of line 117 begins
rl_while(t) ==
  /\ pc[t] = "t_while"
  /\ IF rec.recording
       THEN Goto(t, "t_sleep") /\ wake' = [wake EXCEPT ![t] = now + SleepSecs]
       ELSE Goto(t, "none") /\ UNCHANGED wake
  /\ UNCHANGED <<rec, lv, now, env, hist>>

\* line 117: time.sleep(30) returns
rl_sleep(t) ==
  /\ pc[t] = "t_sleep"
  /\ now >= wake[t]
  /\ Goto(t, "t_chk")
  /\ UNCHANGED <<rec, lv, wake, now, env, hist>>

\* lines 119-120; the history attributes what this poll does to the session
\* that it finds recording
rl_chk(t) ==
  /\ pc[t] = "t_chk"
  /\ Goto(t, IF rec.recording THEN "t_elapsed" ELSE "none")
  /\ lv' = [lv EXCEPT ![t].session = hist.nsessions]
  /\ UNCHANGED <<rec, wake, now, env, hist>>

\* line 122
rl_elapsed(t) ==
  /\ pc[t] = "t_elapsed"
  /\ IF rec.last_reminder_time = None
       THEN RaiseIn(t, "_reminder_loop", "TypeError") /\ UNCHANGED lv
       ELSE SetTmp(t, now - rec.last_reminder_time) /\ Goto(t, "t_interval") /\ UNCHANGED hist
  /\ UNCHANGED <<rec, wake, now, env>>

\* lines 125-130: the interval for the count read now, and the comparison
rl_interval(t) ==
  /\ pc[t] = "t_interval"
  /\ LET interval == IF rec.reminder_count = 0 THEN first_interval ELSE followup_interval
     IN  Goto(t, IF lv[t].tmp >= interval THEN "t_inc_rd" ELSE "t_while")
  /\ UNCHANGED <<rec, lv, wake, now, env, hist>>

\* line 131, self.reminder_count += 1: the load
rl_inc_rd(t) ==
  /\ pc[t] = "t_inc_rd"
  /\ SetTmp(t, rec.reminder_count)
  /\ Goto(t, "t_inc_wr")
  /\ UNCHANGED <<rec, wake, now, env, hist>>

\* line 131: the store; the history keeps the count that this firing stored
rl_inc_wr(t) ==
  /\ pc[t] = "t_inc_wr"
  /\ rec' = [rec EXCEPT !.reminder_count = lv[t].tmp + 1]
  /\ hist' = [hist EXCEPT !.stored[t] = lv[t].tmp + 1]
  /\ Goto(t, "t_lrt")
  /\ UNCHANGED <<lv, wake, now, env>>

\* line 132
rl_lrt(t) ==
  /\ pc[t] = "t_lrt"
  /\ rec' = [rec EXCEPT !.last_reminder_time = now]
  /\ Goto(t, "t_ack")
  /\ UNCHANGED <<lv, wake, now, env, hist>>

\* line 133
rl_ack(t) ==
  /\ pc[t] = "t_ack"
  /\ rec' = [rec EXCEPT !.reminder_acknowledged = FALSE]
  /\ Goto(t, "t_dur1")
  /\ UNCHANGED <<lv, wake, now, env, hist>>

\* line 135, get_duration (lines 93-95): not self.recording
rl_dur1(t) ==
  /\ pc[t] = "t_dur1"
  /\ IF rec.recording
       THEN Goto(t, "t_dur2") /\ UNCHANGED lv
       ELSE Goto(t, "t_max") /\ SetTmp(t, 0)
  /\ UNCHANGED <<rec, wake, now, env, hist>>

\* get_duration, line 93: not self.start_time
rl_dur2(t) ==
  /\ pc[t] = "t_dur2"
  /\ IF Truthy(rec.start_time)
       THEN Goto(t, "t_dur3") /\ UNCHANGED lv
       ELSE Goto(t, "t_max") /\ SetTmp(t, 0)
  /\ UNCHANGED <<rec, wake, now, env, hist>>

\* get_duration, line 95: time.time() - self.start_time
rl_dur3(t) ==
  /\ pc[t] = "t_dur3"
  /\ IF rec.start_time = None
       THEN RaiseIn(t, "get_duration", "TypeError") /\ UNCHANGED lv
       ELSE SetTmp(t, now - rec.start_time) /\ Goto(t, "t_max") /\ UNCHANGED hist
  /\ UNCHANGED <<rec, wake, now, env>>

\* line 138
rl_max(t) ==
  /\ pc[t] = "t_max"
  /\ Goto(t, IF rec.reminder_count >= max_reminders THEN "t_auto_cb" ELSE "t_remind")
  /\ UNCHANGED <<rec, lv, wake, now, env, hist>>

\* lines 141-142: on_auto_stop is TelegramBot.send_auto_stop_notice
\* (main.py:61, telegram_bot.py:325-331); line 143 calls stop()
rl_auto_cb(t) ==
  /\ pc[t] = "t_auto_cb"
  /\ hist' = [hist EXCEPT !.notices = Append(@, [at |-> now, by |-> t, session |-> lv[t].session,
                                                 lastack |-> hist.lastack])]
  /\ Goto(t, "s_chk")
  /\ UNCHANGED <<rec, lv, wake, now, env>>

\* line 144: break, the thread ends
rl_break(t) ==
  /\ pc[t] = "t_break"
  /\ Goto(t, "none")
  /\ UNCHANGED <<rec, lv, wake, now, env, hist>>

\* lines 148-149: on_reminder is TelegramBot.send_recording_reminder
\* (main.py:60, telegram_bot.py:314-323), called with the count read now and
\* the duration computed at line 135-136 (kept in seconds here)
rl_remind(t) ==
  /\ pc[t] = "t_remind"
  /\ hist' = [hist EXCEPT !.reminders =
                Append(@, [n |-> rec.reminder_count, dur |-> lv[t].tmp, at |-> now,
                           by |-> t, session |-> lv[t].session,
                           lastack |-> hist.lastack])]
  /\ Goto(t, "t_while")
  /\ UNCHANGED <<rec, lv, wake, now, env>>

_reminder_loop(t) ==
  \/ rl_while(t) \/ rl_sleep(t) \/ rl_chk(t) \/ rl_elapsed(t) \/ rl_interval(t)
  \/ rl_inc_rd(t) \/ rl_inc_wr(t) \/ rl_lrt(t) \/ rl_ack(t)
  \/ rl_dur1(t) \/ rl_dur2(t) \/ rl_dur3(t) \/ rl_max(t)
  \/ rl_auto_cb(t) \/ rl_break(t) \/ rl_remind(t)

-----------------------------------------------------------------------------
(* VideoRecorder.start, video_recorder.py:36-60, and                       *)
(* SecuritySystem._on_record_start, main.py:81-87: the poll thread runs    *)
(* them for the /record command                                            *)

\* _on_record_start without the test of lines 83-84
ors_chk_unguarded ==
  /\ pc["cmd"] = "ors_chk"
  /\ hist' = [hist EXCEPT !.calls[poll.idx] = Append(@, "on_record_start")]
  /\ Goto("cmd", "ors_fs")
  /\ UNCHANGED <<rec, lv, wake, now, env>>

\* main.py:83-84
ors_chk ==
  /\ pc["cmd"] = "ors_chk"
  /\ hist' = [hist EXCEPT !.calls[poll.idx] = Append(@, "on_record_start")]
  /\ IF rec.recording
       THEN Goto("cmd", "c_rec_reply") /\ SetResult("cmd", None)
       ELSE Goto("cmd", "ors_fs") /\ UNCHANGED lv
  /\ UNCHANGED <<rec, wake, now, env>>

\* main.py:85-87
ors_fs ==
  /\ pc["cmd"] = "ors_fs"
  /\ IF sys.frame_size
       THEN Goto("cmd", "st_chk") /\ UNCHANGED lv
       ELSE Goto("cmd", "c_rec_reply") /\ SetResult("cmd", None)
  /\ UNCHANGED <<rec, wake, now, env, hist>>

\* lines 38-39
start_chk ==
  /\ pc["cmd"] = "st_chk"
  /\ IF rec.recording
       THEN Goto("cmd", "c_rec_reply") /\ SetResult("cmd", rec.current_file)
       ELSE Goto("cmd", "st_cf") /\ UNCHANGED lv
  /\ UNCHANGED <<rec, wake, now, env, hist>>

\* lines 41-42: a new file, named by the time of the start; the files of two
\* sessions are taken to differ (they are started at different seconds)
start_cf ==
  /\ pc["cmd"] = "st_cf"
  /\ rec' = [rec EXCEPT !.current_file = hist.nsessions + 1]
  /\ hist' = [hist EXCEPT !.nsessions = @ + 1,
                          !.started[hist.nsessions + 1] = now,
                          !.lastack = None]
  /\ Goto("cmd", "st_wr")
  /\ UNCHANGED <<lv, wake, now, env>>

\* lines 44-47: a new writer on that file, which it creates
start_wr ==
  /\ pc["cmd"] = "st_wr"
  /\ rec.current_file # None
  /\ rec' = [rec EXCEPT !.writer = rec.current_file]
  /\ disk' = [disk EXCEPT !.recordings = @ \cup {rec.current_file}]
  /\ hist' = [hist EXCEPT !.opened = @ \cup {rec.current_file}]
  /\ Goto("cmd", "st_rec")
  /\ UNCHANGED <<lv, wake, now, sys, bot, updates, poll, lg, trk, ticks>>

\* lines 49-54, one assignment each
start_set(label, next, new) ==
  /\ pc["cmd"] = label
  /\ rec' = new
  /\ Goto("cmd", next)
  /\ UNCHANGED <<lv, wake, now, env, hist>>

start_rec == start_set("st_rec", "st_fc", [rec EXCEPT !.recording = TRUE])
start_fc == start_set("st_fc", "st_st", [rec EXCEPT !.frame_count = 0])
start_st == start_set("st_st", "st_ack", [rec EXCEPT !.start_time = now])
start_ack == start_set("st_ack", "st_lrt", [rec EXCEPT !.reminder_acknowledged = FALSE])
start_lrt == start_set("st_lrt", "st_rc", [rec EXCEPT !.last_reminder_time = now])
start_rc == start_set("st_rc", "st_thread", [rec EXCEPT !.reminder_count = 0])

\* line 57, _start_reminder_thread (lines 104-107): a new thread; the
\* history keeps the session that started it
FreeTimer == IF pc["t1"] = "none" THEN "t1" ELSE "t2"

start_thread ==
  /\ pc["cmd"] = "st_thread"
  /\ \E t \in Timers : pc[t] = "none"
  /\ pc' = [pc EXCEPT !["cmd"] = "st_ret", ![FreeTimer] = "t_while"]
  /\ rec' = [rec EXCEPT !.reminder_thread = FreeTimer]
  /\ hist' = [hist EXCEPT !.born[FreeTimer] = hist.nsessions]
  /\ UNCHANGED <<lv, wake, now, env>>

\* line 60: return self.current_file
start_ret ==
  /\ pc["cmd"] = "st_ret"
  /\ SetResult("cmd", rec.current_file)
  /\ Goto("cmd", "c_rec_reply")
  /\ UNCHANGED <<rec, wake, now, env, hist>>

start ==
  \/ start_chk \/ start_cf \/ start_wr \/ start_rec \/ start_fc \/ start_st
  \/ start_ack \/ start_lrt \/ start_rc \/ start_thread \/ start_ret

_on_record_start == ors_chk \/ ors_fs

-----------------------------------------------------------------------------
(* VideoRecorder.acknowledge_reminder, video_recorder.py:97-102, called by *)
(* SecuritySystem._on_record_continue, main.py:93-95                       *)

ack_set(label, next, new) ==
  /\ pc["cmd"] = label
  /\ rec' = new
  /\ Goto("cmd", next)
  /\ UNCHANGED <<lv, wake, now, env, hist>>

\* line 99
ack_ack == ack_set("a_ack", "a_lrt", [rec EXCEPT !.reminder_acknowledged = TRUE])
\* line 100
ack_lrt == ack_set("a_lrt", "a_rc", [rec EXCEPT !.last_reminder_time = now])
\* line 101
ack_rc ==
  /\ pc["cmd"] = "a_rc"
  /\ rec' = [rec EXCEPT !.reminder_count = 0]
  /\ hist' = [hist EXCEPT !.lastack = now, !.acked = @ \cup {hist.nsessions}]
  /\ Goto("cmd", "c_cont_reply")
  /\ UNCHANGED <<lv, wake, now, env>>

acknowledge_reminder == ack_ack \/ ack_lrt \/ ack_rc

-----------------------------------------------------------------------------
(* TelegramBot, telegram_bot.py *)

\* the command names of _handle_command, lines 126-221
T_start == <<"/","s","t","a","r","t">>
T_stop == <<"/","s","t","o","p">>
T_status == <<"/","s","t","a","t","u","s">>
T_list == <<"/","l","i","s","t">>
T_add == <<"/","a","d","d">>
T_remove == <<"/","r","e","m","o","v","e">>
T_record == <<"/","r","e","c","o","r","d">>
T_stoprecord == <<"/","s","t","o","p","r","e","c","o","r","d">>
T_continue == <<"/","c","o","n","t","i","n","u","e">>
T_recordings == <<"/","r","e","c","o","r","d","i","n","g","s">>
T_snap == <<"/","s","n","a","p">>
T_help == <<"/","h","e","l","p">>
\* the prefix tested at line 102
T_add_sp == <<"/","a","d","d"," ">>
T_slash == <<"/">>
\* a name, a command with it, and texts that name no command
T_bob == <<"b","o","b">>
T_add_bob == T_add_sp \o T_bob
T_remove_bob == T_remove \o <<" ">> \o T_bob
T_bogus == <<"/","x">>
T_hi == <<"h","i">>
\* /StoP@cam: another spelling of /stop (line 123)
T_stop_at == <<"/","S","t","o","P","@","c","a","m">>

\* an absent str attribute: pending_add_name is None or a non-empty name, and
\* the code only tests its truth (line 110) before using it
NoText == <<>>

\* a message: msg["chat"]["id"] (None when the update has no message or no
\* chat), msg["text"], msg["caption"] (absent: ""), msg["photo"] present
Msg(chat, text, caption, photo) ==
  [chat |-> chat, text |-> text, caption |-> caption, photo |-> photo]

\* line 91: str(msg.get("chat", {}).get("id", ""))
ChatStr(c) == IF c = None THEN "" ELSE ToString(c)

\* the updates the server returns for getUpdates(offset), lines 80-86:
\* those whose update_id (the place in the arrival order) is >= offset
Pending == {i \in 1..Len(updates) : i >= bot.last_update_id}

\* an update arrives at the server
Arrive(m) ==
  /\ Len(updates) < MaxUpdates
  /\ updates' = Append(updates, m)
  /\ UNCHANGED <<rec, pc, lv, wake, now, sys, bot, poll, lg, trk, disk, ticks, hist>>

\* the operator sends /record, /stoprecord, /record, once the camera has
\* delivered its first frame
Restart == <<T_record, T_stoprecord, T_record>>

ArriveRestart ==
  /\ Len(updates) < Len(Restart)
  /\ sys.frame_size /\ pc["main"] = "m_loop"
  /\ updates' = Append(updates, Msg(OwnerChat, Restart[Len(updates) + 1], NoText, FALSE))
  /\ UNCHANGED <<rec, pc, lv, wake, now, sys, bot, poll, lg, trk, disk, ticks, hist>>

\* line 70: while self.running
poll_while ==
  /\ pc["cmd"] = "c_poll"
  /\ Goto("cmd", IF bot.running THEN "c_get" ELSE "c_exit")
  /\ UNCHANGED <<rec, lv, wake, now, env, hist>>

\* line 72: _get_updates returns the pending updates (an empty answer leads
\* back to line 70 through the sleep of line 78)
poll_get ==
  /\ pc["cmd"] = "c_get"
  /\ IF Pending = {}
       THEN Goto("cmd", "c_poll") /\ UNCHANGED poll
       ELSE /\ Goto("cmd", "c_update")
            /\ poll' = [idx |-> CHOOSE i \in Pending : \A j \in Pending : i <= j,
                        hi |-> Len(updates), arg |-> NoText]
  /\ UNCHANGED <<rec, lv, wake, now, sys, bot, updates, lg, trk, disk, ticks, hist>>

\* lines 122-124: the handler of the command that text names, and its argument
CmdOf(text) == BeforeAt(Lower(SplitMax1(text)[1]))
ArgOf(text) == IF Len(SplitMax1(text)) > 1 THEN SplitMax1(text)[2] ELSE NoText

\* lines 126-241: the branch taken for a command name
HandlerOf(cmd) ==
  IF cmd = T_start THEN "c_start"
  ELSE IF cmd = T_stop THEN "c_stop"
  ELSE IF cmd = T_status THEN "c_status"
  ELSE IF cmd = T_list THEN "c_list"
  ELSE IF cmd = T_add THEN "c_add"
  ELSE IF cmd = T_remove THEN "c_remove"
  ELSE IF cmd = T_record THEN "ors_chk"
  ELSE IF cmd = T_stoprecord THEN "c_stoprecord"
  ELSE IF cmd = T_continue THEN "c_continue"
  ELSE IF cmd = T_recordings THEN "c_recordings"
  ELSE IF cmd = T_snap THEN "c_snap"
  ELSE IF cmd = T_help THEN "c_help"
  ELSE "c_unknown"

\* _handle_update without the test of lines 93-95
Route_unchecked(u, pending) ==
  LET text == Strip(u.text)
      caption == Strip(u.caption)
      inline == IF WordCount(caption) > 1 THEN SplitMax1(caption)[2] ELSE NoText
  IN  IF u.photo /\ StartsWith(caption, T_add_sp) /\ inline # NoText
        THEN [to |-> "c_photo", pending |-> inline, arg |-> NoText]
      ELSE IF u.photo /\ pending # NoText
        THEN [to |-> "c_photo", pending |-> pending, arg |-> NoText]
      ELSE IF StartsWith(text, T_slash)
        THEN [to |-> HandlerOf(CmdOf(text)), pending |-> pending, arg |-> ArgOf(text)]
      ELSE IF StartsWith(caption, T_slash)
        THEN [to |-> HandlerOf(CmdOf(caption)), pending |-> pending, arg |-> ArgOf(caption)]
      ELSE [to |-> "c_adv", pending |-> pending, arg |-> NoText]

\* lines 88-118, _handle_update, up to the call of a handler: where the
\* update is routed, the name it leaves pending, the argument it passes
Route(u, pending) ==
  LET text == Strip(u.text)
      caption == Strip(u.caption)
      inline == IF WordCount(caption) > 1 THEN SplitMax1(caption)[2] ELSE NoText
  IN  IF ChatStr(u.chat) # bot.chat_id
        THEN [to |-> "c_adv", pending |-> pending, arg |-> NoText]
      ELSE IF u.photo /\ StartsWith(caption, T_add_sp) /\ inline # NoText
        THEN [to |-> "c_photo", pending |-> inline, arg |-> NoText]
      ELSE IF u.photo /\ pending # NoText
        THEN [to |-> "c_photo", pending |-> pending, arg |-> NoText]
      ELSE IF StartsWith(text, T_slash)
        THEN [to |-> HandlerOf(CmdOf(text)), pending |-> pending, arg |-> ArgOf(text)]
      ELSE IF StartsWith(caption, T_slash)
        THEN [to |-> HandlerOf(CmdOf(caption)), pending |-> pending, arg |-> ArgOf(caption)]
      ELSE [to |-> "c_adv", pending |-> pending, arg |-> NoText]

\* line 74: _handle_update(update), to the handler's first statement; the
\* history counts the times each update was handled, up to MaxHandled
_handle_update ==
  /\ pc["cmd"] = "c_update"
  /\ LET r == Route(updates[poll.idx], bot.pending_add_name)
     IN  /\ Goto("cmd", r.to)
         /\ bot' = [bot EXCEPT !.pending_add_name = r.pending]
         /\ poll' = [poll EXCEPT !.arg = r.arg]
         /\ hist' = [hist EXCEPT !.handled[poll.idx] = IF @ < MaxHandled THEN @ + 1 ELSE @]
  /\ UNCHANGED <<rec, lv, wake, now, sys, updates, lg, trk, disk, ticks>>

\* send_message / send_alert from a handler, lines 301-312, 333-344: the
\* history keeps what was sent while handling each update, and the callbacks
\* of SecuritySystem that were called
Sent(kind) == [hist EXCEPT !.sent[poll.idx] = Append(@, kind)]
Called(h, name) == [h EXCEPT !.calls[poll.idx] = Append(@, name)]

\* line 75, and the for loop's next turn or the return to line 70
poll_adv ==
  /\ pc["cmd"] = "c_adv"
  /\ bot' = [bot EXCEPT !.last_update_id = poll.idx + 1]
  /\ IF poll.idx < poll.hi
       THEN Goto("cmd", "c_update") /\ poll' = [poll EXCEPT !.idx = @ + 1, !.arg = NoText]
       ELSE Goto("cmd", "c_poll") /\ poll' = [idx |-> 0, hi |-> 0, arg |-> NoText]
  /\ UNCHANGED <<rec, lv, wake, now, sys, updates, lg, trk, disk, ticks, hist>>

\* lines 76-78: an exception of a handler ends the batch; the cursor stays
poll_except ==
  /\ pc["cmd"] = "c_except"
  /\ Goto("cmd", "c_poll")
  /\ poll' = [idx |-> 0, hi |-> 0, arg |-> NoText]
  /\ UNCHANGED <<rec, lv, wake, now, sys, bot, updates, lg, trk, disk, ticks, hist>>

\* lines 172-179: the answer to /record
c_rec_reply ==
  /\ pc["cmd"] = "c_rec_reply"
  /\ hist' = Sent(IF Truthy(lv["cmd"].result) THEN "recording_started" ELSE "already_recording")
  /\ Goto("cmd", "c_adv")
  /\ UNCHANGED <<rec, lv, wake, now, env>>

\* lines 183-185: /stoprecord calls on_record_stop, main.py:89-91
c_stoprecord ==
  /\ pc["cmd"] = "c_stoprecord"
  /\ hist' = [Called(hist, "on_record_stop") EXCEPT !.opstop = @ \cup {hist.nsessions}]
  /\ Goto("cmd", "s_chk")
  /\ UNCHANGED <<rec, lv, wake, now, env>>

\* lines 186-189: the answer to /stoprecord
c_stop_reply ==
  /\ pc["cmd"] = "c_stop_reply"
  /\ hist' = Sent(IF Truthy(lv["cmd"].result) THEN "recording_stopped" ELSE "not_recording")
  /\ Goto("cmd", "c_adv")
  /\ UNCHANGED <<rec, lv, wake, now, env>>

\* lines 193-195: /continue calls on_record_continue, main.py:93-95
c_continue ==
  /\ pc["cmd"] = "c_continue"
  /\ hist' = Called(hist, "on_record_continue")
  /\ Goto("cmd", "a_ack")
  /\ UNCHANGED <<rec, lv, wake, now, env>>

\* line 196: the answer to /continue
c_cont_reply ==
  /\ pc["cmd"] = "c_cont_reply"
  /\ hist' = Sent("will_continue")
  /\ Goto("cmd", "c_adv")
  /\ UNCHANGED <<rec, lv, wake, now, env>>

\* lines 126-130: /start, with on_start (main.py:66-69)
c_start ==
  /\ pc["cmd"] = "c_start"
  /\ bot' = [bot EXCEPT !.surveillance_active = TRUE]
  /\ sys' = [sys EXCEPT !.paused = FALSE]
  /\ hist' = Called(Sent("surveillance_started"), "on_start")
  /\ Goto("cmd", "c_adv")
  /\ UNCHANGED <<rec, lv, wake, now, updates, poll, lg, trk, disk, ticks>>

\* /stop that clears the bot's flag and leaves the system's alone
c_stop_flag_only ==
  /\ pc["cmd"] = "c_stop"
  /\ bot' = [bot EXCEPT !.surveillance_active = FALSE]
  /\ hist' = Called(Sent("surveillance_stopped"), "on_stop")
  /\ Goto("cmd", "c_adv")
  /\ UNCHANGED <<rec, lv, wake, now, sys, updates, poll, lg, trk, disk, ticks>>

\* lines 132-136: /stop, with on_stop (main.py:71-74)
c_stop ==
  /\ pc["cmd"] = "c_stop"
  /\ bot' = [bot EXCEPT !.surveillance_active = FALSE]
  /\ sys' = [sys EXCEPT !.paused = TRUE]
  /\ hist' = Called(Sent("surveillance_stopped"), "on_stop")
  /\ Goto("cmd", "c_adv")
  /\ UNCHANGED <<rec, lv, wake, now, updates, poll, lg, trk, disk, ticks>>

\* a handler that only answers
Answer(label, kind) ==
  /\ pc["cmd"] = label
  /\ hist' = Sent(kind)
  /\ Goto("cmd", "c_adv")
  /\ UNCHANGED <<rec, lv, wake, now, env>>

\* lines 138-143: /status, with get_status (main.py:114-128)
c_status == Answer("c_status", "status")

\* lines 145-150: /list
c_list == Answer("c_list", IF disk.known_faces # {} THEN "known_faces" ELSE "no_known_faces")

\* /add without the test of line 153
c_add_unchecked ==
  /\ pc["cmd"] = "c_add"
  /\ bot' = [bot EXCEPT !.pending_add_name = poll.arg]
  /\ hist' = Sent("send_a_photo")
  /\ Goto("cmd", "c_adv")
  /\ UNCHANGED <<rec, lv, wake, now, sys, updates, poll, lg, trk, disk, ticks>>

\* /add keeping the name that is already pending
c_add_keeps_first ==
  /\ pc["cmd"] = "c_add"
  /\ IF poll.arg = NoText
       THEN hist' = Sent("add_usage") /\ UNCHANGED bot
       ELSE /\ bot' = [bot EXCEPT !.pending_add_name =
                                    IF @ = NoText THEN poll.arg ELSE @]
            /\ hist' = Sent("send_a_photo")
  /\ Goto("cmd", "c_adv")
  /\ UNCHANGED <<rec, lv, wake, now, sys, updates, poll, lg, trk, disk, ticks>>

\* lines 152-157: /add
c_add ==
  /\ pc["cmd"] = "c_add"
  /\ IF poll.arg = NoText
       THEN hist' = Sent("add_usage") /\ UNCHANGED bot
       ELSE /\ bot' = [bot EXCEPT !.pending_add_name = poll.arg]
            /\ hist' = Sent("send_a_photo")
  /\ Goto("cmd", "c_adv")
  /\ UNCHANGED <<rec, lv, wake, now, sys, updates, poll, lg, trk, disk, ticks>>

\* lines 159-167: /remove, with _remove_face (lines 290-299)
c_remove ==
  /\ pc["cmd"] = "c_remove"
  /\ IF poll.arg = NoText
       THEN hist' = Sent("remove_usage") /\ UNCHANGED disk
       ELSE IF poll.arg \in disk.known_faces
         THEN /\ disk' = [disk EXCEPT !.known_faces = @ \ {poll.arg}]
              /\ hist' = Sent("removed")
         ELSE hist' = Sent("not_found") /\ UNCHANGED disk
  /\ Goto("cmd", "c_adv")
  /\ UNCHANGED <<rec, lv, wake, now, sys, bot, updates, poll, lg, trk, ticks>>

\* lines 200-207: /recordings, with list_recordings (video_recorder.py:151-162)
c_recordings ==
  Answer("c_recordings", IF disk.recordings # {} THEN "recordings" ELSE "no_recordings")

\* lines 211-217: /snap, with on_snap (main.py:97-112)
c_snap ==
  /\ pc["cmd"] = "c_snap"
  /\ hist' = Called(Sent(IF sys.latest_frame THEN "snap" ELSE "no_frame"), "on_snap")
  /\ Goto("cmd", "c_adv")
  /\ UNCHANGED <<rec, lv, wake, now, env>>

\* lines 221-238: /help
c_help == Answer("c_help", "help")

\* lines 240-241
c_unknown == Answer("c_unknown", "unknown_command")

\* line 270: open(known_faces/<name>.jpg, "wb") succeeds when the name is a
\* file name; a name with a path separator names a directory that does not
\* exist, and open raises FileNotFoundError every time
ValidFileName(name) == \A k \in 1..Len(name) : name[k] # "/"

\* what _handle_add_photo does after it has taken the name, lines 248-276:
\* a request fails (an exception), the server names no file (lines 255-257),
\* the file cannot be created (an exception), or the file is saved, the
\* operator is told and on_add_face is called
FetchAndSave(name) ==
  \/ /\ hist.failures < MaxFailures
     /\ hist' = [hist EXCEPT !.failures = @ + 1,
                             !.errors = @ \cup {<<"cmd", "_handle_add_photo", "RequestException">>}]
     /\ Goto("cmd", "c_except")
     /\ UNCHANGED disk
  \/ /\ hist' = Sent("photo_failed")
     /\ Goto("cmd", "c_adv")
     /\ UNCHANGED disk
  \/ IF ValidFileName(name)
       THEN /\ disk' = [disk EXCEPT !.known_faces = @ \cup {name}]
            /\ hist' = Called(Sent("face_added"), "on_add_face")
            /\ Goto("cmd", "c_adv")
       ELSE /\ hist' = [hist EXCEPT
                          !.errors = @ \cup {<<"cmd", "_handle_add_photo", "FileNotFoundError">>}]
            /\ Goto("cmd", "c_except")
            /\ UNCHANGED disk

\* _handle_add_photo without the assignment of line 246
c_photo_keeps_slot ==
  /\ pc["cmd"] = "c_photo"
  /\ UNCHANGED bot
  /\ FetchAndSave(bot.pending_add_name)
  /\ UNCHANGED <<rec, lv, wake, now, sys, updates, poll, lg, trk, ticks>>

\* lines 243-276, _handle_add_photo: the name is taken from the slot, which
\* is cleared (lines 245-246); then the photo is fetched and saved
c_photo ==
  /\ pc["cmd"] = "c_photo"
  /\ bot' = [bot EXCEPT !.pending_add_name = NoText]
  /\ FetchAndSave(bot.pending_add_name)
  /\ UNCHANGED <<rec, lv, wake, now, sys, updates, poll, lg, trk, ticks>>

\* the commands that do not concern the recorder
_handle_command ==
  \/ c_start \/ c_stop \/ c_status \/ c_list \/ c_add \/ c_remove
  \/ c_recordings \/ c_snap \/ c_help \/ c_unknown

\* the poll loop and the recording commands
_poll_loop ==
  \/ poll_while \/ poll_get \/ _handle_update \/ poll_adv
  \/ c_rec_reply \/ c_stoprecord \/ c_stop_reply \/ c_continue \/ c_cont_reply

-----------------------------------------------------------------------------
(* The capture loop, main.py:251-282, run by the main thread *)

\* lines 253-260, record_frame lines 150-155: a frame is read, its size and
\* the frame itself are kept
record_frame ==
  /\ pc["main"] = "m_loop"
  /\ sys.nframes < MaxFrames
  /\ sys' = [sys EXCEPT !.nframes = @ + 1, !.frame_size = TRUE, !.latest_frame = TRUE]
  /\ Goto("main", "m_isrec")
  /\ UNCHANGED <<rec, lv, wake, now, bot, updates, poll, lg, trk, disk, ticks, hist>>

\* main.py:157
rf_isrec ==
  /\ pc["main"] = "m_isrec"
  /\ Goto("main", IF rec.recording THEN "w_chk1" ELSE "m_loop")
  /\ UNCHANGED <<rec, lv, wake, now, env, hist>>

\* video_recorder.py:83, self.recording
wf_chk1 ==
  /\ pc["main"] = "w_chk1"
  /\ Goto("main", IF rec.recording THEN "w_chk2" ELSE "m_loop")
  /\ UNCHANGED <<rec, lv, wake, now, env, hist>>

\* video_recorder.py:83, self.writer
wf_chk2 ==
  /\ pc["main"] = "w_chk2"
  /\ Goto("main", IF Truthy(rec.writer) THEN "w_write" ELSE "m_loop")
  /\ UNCHANGED <<rec, lv, wake, now, env, hist>>

\* video_recorder.py:84: self.writer is loaded again, then written to
wf_write ==
  /\ pc["main"] = "w_write"
  /\ IF rec.writer = None
       THEN RaiseIn("main", "write_frame", "AttributeError")
       ELSE /\ hist' = [hist EXCEPT !.written[rec.writer] = @ + 1,
                                    !.late = @ \cup (IF hist.released[rec.writer] > 0
                                                       THEN {rec.writer} ELSE {})]
            /\ Goto("main", "w_inc_rd")
  /\ UNCHANGED <<rec, lv, wake, now, env>>

\* video_recorder.py:85, self.frame_count += 1: the load
wf_inc_rd ==
  /\ pc["main"] = "w_inc_rd"
  /\ SetTmp("main", rec.frame_count)
  /\ Goto("main", "w_inc_wr")
  /\ UNCHANGED <<rec, wake, now, env, hist>>

\* video_recorder.py:85: the store
wf_inc_wr ==
  /\ pc["main"] = "w_inc_wr"
  /\ rec' = [rec EXCEPT !.frame_count = lv["main"].tmp + 1]
  /\ Goto("main", "m_loop")
  /\ UNCHANGED <<lv, wake, now, env, hist>>

write_frame == wf_chk1 \/ wf_chk2 \/ wf_write \/ wf_inc_rd \/ wf_inc_wr

\* main.py:255, 273 (or an interrupt): the loop ends, the finally clause runs
\* SecuritySystem.stop, main.py:138-140: bot.stop_polling(), line 66 of the bot
main_quit ==
  /\ pc["main"] = "m_loop"
  /\ bot' = [bot EXCEPT !.running = FALSE]
  /\ Goto("main", "q_isrec")
  /\ lv' = [lv EXCEPT !["main"].ctx = "finally"]
  /\ UNCHANGED <<rec, wake, now, sys, updates, poll, lg, trk, disk, ticks, hist>>

\* an exception in the loop's body: the finally clause runs the same stop;
\* an exception inside the finally clause ends the process at once
main_raise ==
  /\ pc["main"] = "m_raise"
  /\ IF lv["main"].ctx = "finally"
       THEN /\ pc' = [th \in Threads |->
                      IF th = "main" THEN "m_exit" ELSE IF th = "cmd" THEN "c_exit" ELSE "none"]
            /\ UNCHANGED <<bot, lv>>
       ELSE /\ bot' = [bot EXCEPT !.running = FALSE]
            /\ Goto("main", "q_isrec")
            /\ lv' = [lv EXCEPT !["main"].ctx = "finally"]
  /\ UNCHANGED <<rec, wake, now, sys, updates, poll, lg, trk, disk, ticks, hist>>

\* main.py:141-142
sys_stop_isrec ==
  /\ pc["main"] = "q_isrec"
  /\ IF rec.recording
       THEN Goto("main", "s_chk") /\ hist' = [hist EXCEPT !.opstop = @ \cup {hist.nsessions}]
       ELSE Goto("main", "m_cleanup") /\ UNCHANGED hist
  /\ UNCHANGED <<rec, lv, wake, now, env>>

\* main.py:279-282, then the process ends and its daemon threads with it
main_exit ==
  /\ pc["main"] = "m_cleanup"
  /\ pc' = [th \in Threads |->
              IF th = "main" THEN "m_exit" ELSE IF th = "cmd" THEN "c_exit" ELSE "none"]
  /\ UNCHANGED <<rec, lv, wake, now, env, hist>>

-----------------------------------------------------------------------------
(* ActivityLogger, activity_logger.py, called by the capture loop for each *)
(* face that the recognizer names (main.py:195-196)                        *)

Unknown == "Unknown"
Names == {Unknown, "alice"}

\* _should_log with the comparison of line 42 turned into >=
_should_log_ge(l, name, t) ==
  \/ l.last_seen[name] = None
  \/ t - l.last_seen[name] >= (IF name # Unknown THEN known_cooldown ELSE unknown_cooldown)

\* _get_cooldown with one window for every identity
_get_cooldown_same(name) == known_cooldown

\* lines 30-32
_get_cooldown(name) == IF name # Unknown THEN known_cooldown ELSE unknown_cooldown

\* lines 34-42, at time t
_should_log(l, name, t) ==
  \/ l.last_seen[name] = None
  \/ t - l.last_seen[name] > _get_cooldown(name)

\* what the external calls of one log_detection do: the snapshot is saved or
\* saving it raises (lines 60, 85-94); the alert is sent or fails, which
\* send_alert reports by returning False (telegram_bot.py:333-344)
Outcomes(name) == IF name = Unknown THEN {"sent", "alert_failed", "save_raises"} ELSE {"none"}

\* log_detection without the assignment of line 55
stamp_skipped(l, name, t) == l

\* line 55
stamp(l, name, t) == [l EXCEPT !.last_seen[name] = t]

\* log_detection stamping the identity on a suppressed call as well
log_detection_restamps(l, name, t, outcome) ==
  IF ~_should_log(l, name, t)
    THEN [lg |-> stamp(l, name, t), result |-> "suppressed", alert |-> <<>>]
  ELSE IF outcome = "save_raises"
    THEN [lg |-> stamp(l, name, t), result |-> "raised", alert |-> <<>>]
  ELSE [lg |-> [stamp(l, name, t) EXCEPT
                  !.log = Append(@, [at |-> t, name |-> name, image |-> name = Unknown])],
        result |-> "logged",
        alert |-> IF name = Unknown
                    THEN <<[at |-> t, name |-> name, ok |-> outcome = "sent"]>> ELSE <<>>]

\* lines 44-83 at time t: the logger afterwards, what the call returns
\* ("raised" when it ends with an exception) and the alert it attempted
log_detection(l, name, t, outcome) ==
  IF ~_should_log(l, name, t)
    THEN [lg |-> l, result |-> "suppressed", alert |-> <<>>]
  ELSE IF outcome = "save_raises"
    THEN [lg |-> stamp(l, name, t), result |-> "raised", alert |-> <<>>]
  ELSE [lg |-> [stamp(l, name, t) EXCEPT
                  !.log = Append(@, [at |-> t, name |-> name, image |-> name = Unknown])],
        result |-> "logged",
        alert |-> IF name = Unknown
                    THEN <<[at |-> t, name |-> name, ok |-> outcome = "sent"]>> ELSE <<>>]

\* the history after that call
Noted(h, name, t, r) ==
  [h EXCEPT !.events = Append(@, [name |-> name, at |-> t, result |-> r.result]),
            !.alerts = @ \o r.alert]

\* the recognizer names a face in a frame of the capture loop: main.py:196;
\* an exception leaves the loop (main.py:278)
LogEvent(name) ==
  /\ pc["main"] = "m_loop"
  /\ Len(hist.events) < MaxEvents
  /\ \E outcome \in Outcomes(name) :
       LET r == log_detection(lg, name, now, outcome)
       IN  /\ lg' = r.lg
           /\ IF r.result = "raised"
                THEN /\ hist' = [Noted(hist, name, now, r) EXCEPT
                                   !.errors = @ \cup {<<"main", "_save_intruder", "OSError">>}]
                     /\ Goto("main", "m_raise")
                ELSE hist' = Noted(hist, name, now, r) /\ UNCHANGED pc
  /\ UNCHANGED <<rec, lv, wake, now, sys, bot, updates, poll, trk, disk, ticks>>

-----------------------------------------------------------------------------
(* PersonTracker, person_tracker.py, and the part of process_frame that    *)
(* uses it, main.py:160-198                                                *)

\* lines 20-26: the distance of the centers, as the square of its double
\* (the centers are halves of integers)
_bbox_distance(box1, box2) ==
  (box1[1] + box1[3] - box2[1] - box2[3]) * (box1[1] + box1[3] - box2[1] - box2[3])
    + (box1[2] + box1[4] - box2[2] - box2[4]) * (box1[2] + box1[4] - box2[2] - box2[4])

\* line 52: dist < self.move_threshold
Near(box1, box2) == _bbox_distance(box1, box2) < 4 * move_threshold * move_threshold

\* lines 50-57: the first tracked entry near the box, 0 when none is
FirstMatch(t, box) ==
  IF \E k \in 1..Len(t.tracked) : Near(box, t.tracked[k].bbox)
    THEN CHOOSE k \in 1..Len(t.tracked) :
           /\ Near(box, t.tracked[k].bbox)
           /\ \A j \in 1..(k - 1) : ~Near(box, t.tracked[j].bbox)
    ELSE 0

\* needs_face_check with the comparison of line 55 turned into >=
needs_face_check_ge(t, current_boxes, time) ==
  IF Len(current_boxes) # t.last_person_count THEN TRUE
  ELSE IF Len(current_boxes) = 0 THEN FALSE
  ELSE \E i \in 1..Len(current_boxes) :
         \/ FirstMatch(t, current_boxes[i]) = 0
         \/ time - t.tracked[FirstMatch(t, current_boxes[i])].last_check >= recheck_interval

\* needs_face_check with the tests of lines 40 and 44 in the other order
needs_face_check_empty_first(t, current_boxes, time) ==
  IF Len(current_boxes) = 0 THEN FALSE
  ELSE IF Len(current_boxes) # t.last_person_count THEN TRUE
  ELSE \E i \in 1..Len(current_boxes) :
         \/ FirstMatch(t, current_boxes[i]) = 0
         \/ time - t.tracked[FirstMatch(t, current_boxes[i])].last_check > recheck_interval

\* needs_face_check asking for a recheck only when every box fails, not at
\* the first box that does
needs_face_check_all_boxes(t, current_boxes, time) ==
  IF Len(current_boxes) # t.last_person_count THEN TRUE
  ELSE IF Len(current_boxes) = 0 THEN FALSE
  ELSE \A i \in 1..Len(current_boxes) :
         \/ FirstMatch(t, current_boxes[i]) = 0
         \/ time - t.tracked[FirstMatch(t, current_boxes[i])].last_check > recheck_interval

\* lines 28-63 at time time: the loop returns True at the first box that has
\* no match or whose first match is older than the interval
needs_face_check(t, current_boxes, time) ==
  IF Len(current_boxes) # t.last_person_count THEN TRUE
  ELSE IF Len(current_boxes) = 0 THEN FALSE
  ELSE \E i \in 1..Len(current_boxes) :
         \/ FirstMatch(t, current_boxes[i]) = 0
         \/ time - t.tracked[FirstMatch(t, current_boxes[i])].last_check > recheck_interval

\* an absent identity or face location
NoFace == "None"

\* update taking the last face of the list, not the first
update_last_face(boxes, faces_per_box, time) ==
  [tracked |->
     [i \in 1..Len(boxes) |->
        IF i <= Len(faces_per_box) /\ faces_per_box[i] # <<>>
          THEN [bbox |-> boxes[i], name |-> faces_per_box[i][Len(faces_per_box[i])][1],
                face_loc |-> faces_per_box[i][Len(faces_per_box[i])][2], last_check |-> time]
          ELSE [bbox |-> boxes[i], name |-> NoFace, face_loc |-> NoFace,
                last_check |-> time]],
   last_person_count |-> Len(boxes)]

\* update without the assignment of line 82: the name is kept, its location
\* is not
update_without_loc(boxes, faces_per_box, time) ==
  [tracked |->
     [i \in 1..Len(boxes) |->
        IF i <= Len(faces_per_box) /\ faces_per_box[i] # <<>>
          THEN [bbox |-> boxes[i], name |-> faces_per_box[i][1][1],
                face_loc |-> NoFace, last_check |-> time]
          ELSE [bbox |-> boxes[i], name |-> NoFace, face_loc |-> NoFace,
                last_check |-> time]],
   last_person_count |-> Len(boxes)]

\* lines 65-86 at time time; faces_per_box[i] is the list of (name, location)
\* that the recognizer returned for box i
update(boxes, faces_per_box, time) ==
  [tracked |->
     [i \in 1..Len(boxes) |->
        IF i <= Len(faces_per_box) /\ faces_per_box[i] # <<>>
          THEN [bbox |-> boxes[i], name |-> faces_per_box[i][1][1],
                face_loc |-> faces_per_box[i][1][2], last_check |-> time]
          ELSE [bbox |-> boxes[i], name |-> NoFace, face_loc |-> NoFace,
                last_check |-> time]],
   last_person_count |-> Len(boxes)]

\* lines 88-93
get_cached(t) == [i \in 1..Len(t.tracked) |->
                    <<t.tracked[i].name, t.tracked[i].face_loc, t.tracked[i].bbox>>]

\* the names of the faces found, in the order of lines 190-196: every face
\* of every box
RECURSIVE NamesIn(_)
NamesIn(faces_per_box) ==
  IF faces_per_box = <<>> THEN <<>>
  ELSE [k \in 1..Len(Head(faces_per_box)) |-> Head(faces_per_box)[k][1]]
         \o NamesIn(Tail(faces_per_box))

\* main.py:195-196 for known faces: each is handed to the logger, which
\* makes no external call for them
RECURSIVE LogAll(_, _, _)
LogAll(l, names, t) ==
  IF names = <<>> THEN l
  ELSE LogAll(log_detection(l, Head(names), t, "none").lg, Tail(names), t)

\* the frames of the model: no person, one person or two, in boxes of one
\* size at four places, of which the centers are 30, 60 and exactly 50
\* pixels apart
Box(x, y) == <<x, y, x + 40, y + 80>>
Boxes == {Box(0, 0), Box(30, 0), Box(60, 0), Box(30, 40)}
Frames == {<<>>} \cup {<<b>> : b \in Boxes} \cup {<<Box(0, 0), b>> : b \in Boxes}

\* what the recognizer returns for a box: no face, a known face, or the
\* known face found at two places of the box
FaceLists == {<<>>, <<<<"alice", "loc">>>>, <<<<"alice", "loc">>, <<"alice", "loc2">>>>}

\* the history of the tracker's last decision: the call, what it returned,
\* and what was true of the frames when it was made
Checked(h, boxes, result, updated) ==
  [h EXCEPT
     !.check = [n |-> Len(boxes), result |-> result,
                steady |-> /\ h.upd.at # None
                           /\ h.steady
                           /\ Len(boxes) = Len(h.prev)
                           /\ \A i \in 1..Len(boxes) : Near(h.prev[i], boxes[i]),
                near |-> /\ h.upd.at # None
                         /\ Len(boxes) = h.upd.count
                         /\ \A i \in 1..Len(boxes) :
                              \E j \in 1..Len(h.upd.boxes) : Near(h.upd.boxes[j], boxes[i]),
                count |-> h.upd.count, since |-> h.upd.at, at |-> now],
     !.upd = IF updated THEN [h.upd EXCEPT !.boxes = boxes, !.count = Len(boxes), !.at = now]
                        ELSE @,
     !.steady = IF updated THEN TRUE
                ELSE /\ h.steady
                     /\ Len(boxes) = Len(h.prev)
                     /\ \A i \in 1..Len(boxes) : Near(h.prev[i], boxes[i]),
     !.prev = boxes]

\* main.py:160-198 for a frame that is bright enough, while the surveillance
\* is not paused: the detector returns boxes, the tracker decides, the
\* recognizer names the faces, the logger and the tracker are updated
process_frame(boxes) ==
  /\ pc["main"] = "m_loop"
  /\ ~sys.paused
  /\ sys.frames_processed < MaxChecks
  /\ IF needs_face_check(trk, boxes, now)
       THEN \E faces_per_box \in [1..Len(boxes) -> FaceLists] :
              /\ sys' = [sys EXCEPT !.frames_processed = @ + 1, !.face_checks = @ + 1,
                                    !.frame_size = TRUE]
              /\ lg' = LogAll(lg, NamesIn(faces_per_box), now)
              /\ trk' = update(boxes, faces_per_box, now)
              /\ hist' = [Checked(hist, boxes, TRUE, TRUE) EXCEPT
                            !.upd.faces = faces_per_box,
                            !.upd.hadname = \E i \in 1..Len(trk.tracked) :
                                              trk.tracked[i].name # NoFace]
       ELSE /\ sys' = [sys EXCEPT !.frames_processed = @ + 1, !.frame_size = TRUE]
            /\ hist' = Checked(hist, boxes, FALSE, FALSE)
            /\ UNCHANGED <<lg, trk>>
  /\ UNCHANGED <<rec, pc, lv, wake, now, bot, updates, poll, disk, ticks>>

\* main.py:160-175 while the surveillance is paused: the frame is counted,
\* its size is kept, and the method returns
process_paused ==
  /\ pc["main"] = "m_loop"
  /\ sys.paused
  /\ sys.frames_processed < MaxChecks
  /\ sys' = [sys EXCEPT !.frames_processed = @ + 1, !.frame_size = TRUE]
  /\ UNCHANGED <<rec, pc, lv, wake, now, bot, updates, poll, lg, trk, disk, ticks, hist>>

\* time passes between two frames
Pass(delays) ==
  /\ pc["main"] = "m_loop"
  /\ ticks < MaxTicks
  /\ \E d \in delays : now' = now + d
  /\ ticks' = ticks + 1
  /\ UNCHANGED <<rec, pc, lv, wake, sys, bot, updates, poll, lg, trk, disk, hist>>

-----------------------------------------------------------------------------
(* The clock *)

\* every thread is blocked: no step can be taken before time passes
Quiescent ==
  /\ \A t \in Timers : pc[t] = "none" \/ (pc[t] = "t_sleep" /\ wake[t] > now)
  /\ pc["cmd"] = "c_exit" \/ (pc["cmd"] \in {"c_poll", "c_get"} /\ Pending = {})
  /\ pc["main"] = "m_loop"

\* the first instant at which a poll of a timer finds the interval elapsed
\* (lines 122-130), as long as nothing else happens before
NextFire ==
  rec.last_reminder_time
    + (IF rec.reminder_count = 0 THEN first_interval ELSE followup_interval)

\* The delays the clock may advance by: one sleep of a timer (line 117), or,
\* while a session is recorded, the time to the next poll that fires.  The
\* polls in between find the session recording and the interval not elapsed,
\* and change nothing (lines 119-130).
Delays ==
  {SleepSecs} \cup
    (IF rec.recording /\ rec.last_reminder_time # None /\ NextFire > now
       THEN {NextFire - now} ELSE {})

\* Time passes.  Only differences of times are read by the program (lines
\* 73, 95, 122 of the recorder), so the time that passes while nothing is
\* recorded and no timer exists is not counted.
Clock(max) ==
  /\ Quiescent
  /\ rec.recording \/ \E t \in Timers : pc[t] # "none"
  /\ ticks < max
  /\ \E d \in Delays : now' = now + d
  /\ ticks' = ticks + 1
  /\ UNCHANGED <<rec, pc, lv, wake, sys, bot, updates, poll, lg, trk, disk, hist>>

Tick == Clock(MaxTicks)

-----------------------------------------------------------------------------
(* The system after construction, main.py:27-45 and 227-228 *)

\* the updates and the sessions the history tells apart
UpdateIds ==
  1..(IF MaxNamings > MaxUpdates /\ MaxNamings > Len(Restart) THEN MaxNamings
      ELSE IF MaxUpdates > Len(Restart) THEN MaxUpdates ELSE Len(Restart))
Sessions == UpdateIds

Start(faces) ==
  /\ rec = [writer |-> None, recording |-> FALSE, current_file |-> None,
            frame_count |-> 0, start_time |-> None, reminder_thread |-> "none",
            reminder_acknowledged |-> FALSE, last_reminder_time |-> None,
            reminder_count |-> 0]
  /\ pc = [th \in Threads |->
             IF th = "cmd" THEN "c_poll" ELSE IF th = "main" THEN "m_loop" ELSE "none"]
  /\ lv = [th \in Threads |-> [tmp |-> 0, result |-> None, ctx |-> "try", session |-> 0]]
  /\ wake = [t \in Timers |-> 0]
  /\ now = 0
  /\ sys = [paused |-> FALSE, frame_size |-> FALSE, latest_frame |-> FALSE, nframes |-> 0,
            frames_processed |-> 0, face_checks |-> 0]
  /\ bot = [running |-> TRUE, surveillance_active |-> TRUE, pending_add_name |-> NoText,
            last_update_id |-> 0, chat_id |-> ToString(OwnerChat), enabled |-> TRUE]
  /\ updates = <<>>
  /\ poll = [idx |-> 0, hi |-> 0, arg |-> NoText]
  /\ lg = [last_seen |-> [n \in Names |-> None], log |-> <<>>]
  /\ trk = [tracked |-> <<>>, last_person_count |-> 0]
  /\ disk = [known_faces |-> faces, recordings |-> {}]
  /\ ticks = 0
  /\ hist = [nsessions |-> 0,
             born |-> [t \in Timers |-> 0],
             stored |-> [t \in Timers |-> 0],
             started |-> [s \in Sessions |-> None],
             opened |-> {},
             released |-> [s \in Sessions |-> 0],
             written |-> [s \in Sessions |-> 0],
             late |-> {},
             stopret |-> [s \in Sessions |-> 0],
             stopnone |-> 0,
             acked |-> {}, opstop |-> {}, lastack |-> None,
             reminders |-> <<>>, notices |-> <<>>,
             errors |-> {},
             handled |-> [i \in UpdateIds |-> 0],
             sent |-> [i \in UpdateIds |-> <<>>],
             calls |-> [i \in UpdateIds |-> <<>>],
             failures |-> 0,
             events |-> <<>>, alerts |-> <<>>,
             upd |-> [boxes |-> <<>>, count |-> 0, at |-> None, faces |-> <<>>,
                      hadname |-> FALSE],
             prev |-> <<>>, steady |-> FALSE,
             check |-> [n |-> 0, result |-> FALSE, steady |-> FALSE, near |-> FALSE,
                        count |-> 0, since |-> None, at |-> 0]]

\* a fresh installation: no known face yet
Init == Start({})

-----------------------------------------------------------------------------
(* The recorder under the operator's commands: the poll thread, the timers, *)
(* the capture loop and the clock                                           *)

\* the authorized chat sends a recording command
RecTexts == {T_record, T_stoprecord, T_continue}
RecMsgs == {Msg(OwnerChat, t, NoText, FALSE) : t \in RecTexts}

Next ==
  \/ \E m \in RecMsgs : Arrive(m)
  \/ _poll_loop \/ poll_except
  \/ _on_record_start \/ start \/ acknowledge_reminder
  \/ \E th \in Threads : stop(th)
  \/ \E t \in Timers : _reminder_loop(t)
  \/ record_frame \/ rf_isrec \/ write_frame
  \/ main_raise \/ sys_stop_isrec \/ main_exit
  \/ Tick

Spec == Init /\ [][Next]_vars

-----------------------------------------------------------------------------
(* The operator stops a session and starts the next one at once *)

TickRestart == Clock(MaxRestartTicks)

NextRestart ==
  \/ ArriveRestart
  \/ poll_while \/ poll_get \/ _handle_update \/ poll_adv
  \/ c_rec_reply \/ c_stoprecord \/ c_stop_reply
  \/ _on_record_start \/ start
  \/ \E th \in {"cmd"} \cup Timers : stop(th)
  \/ \E t \in Timers : _reminder_loop(t)
  \/ record_frame \/ rf_isrec
  \/ TickRestart

SpecRestart == Init /\ [][NextRestart]_vars

-----------------------------------------------------------------------------
(* The bot under messages of any sender: the poll thread and the capture   *)
(* loop, while no time passes                                              *)

\* a chat that is not the owner's
OtherChat == 42

BotTexts ==
  {T_start, T_stop, T_stop_at, T_status, T_list, T_add, T_add_bob, T_remove,
   T_remove_bob, T_record, T_stoprecord, T_continue, T_recordings, T_snap,
   T_help, T_bogus, T_hi}

\* text messages, photos with and without a caption, from the owner, from
\* another chat, and updates without a chat
BotMsgs ==
  {Msg(c, t, NoText, FALSE) : c \in {OwnerChat, OtherChat, None}, t \in BotTexts}
    \cup {Msg(c, NoText, t, TRUE) : c \in {OwnerChat, OtherChat}, t \in {NoText, T_add_bob, T_stop}}

InitBot == \E faces \in SUBSET {T_bob} : Start(faces)

NextBot ==
  \/ \E m \in BotMsgs : Arrive(m)
  \/ _poll_loop \/ poll_except \/ _handle_command \/ c_photo
  \/ _on_record_start \/ start \/ acknowledge_reminder
  \/ \E th \in Threads : stop(th)
  \/ \E t \in Timers : rl_while(t)
  \/ record_frame \/ rf_isrec \/ write_frame
  \/ main_quit \/ main_raise \/ sys_stop_isrec \/ main_exit

SpecBot == InitBot /\ [][NextBot]_vars

\* the sender of update u is not the configured chat (line 94)
Unauthorized(u) == ChatStr(u.chat) # bot.chat_id

\* C10: an update whose sender is not the authorized chat is dropped before
\* any dispatch: handling it sends nothing and calls no callback, and leaves
\* the pause flag, the pending-name slot, the recorder and the files as they
\* are; only the cursor moves on (unless the process ends first).
C10_UnauthorizedIgnored ==
  /\ [](\A i \in 1..Len(updates) :
         Unauthorized(updates[i]) => hist.sent[i] = <<>> /\ hist.calls[i] = <<>>)
  /\ [][(pc["cmd"] = "c_update" /\ Unauthorized(updates[poll.idx])
           /\ pc'["cmd"] \notin {"c_update", "c_exit"})
         => /\ pc'["cmd"] = "c_adv"
            /\ bot' = bot /\ sys' = sys /\ rec' = rec /\ disk' = disk
            /\ hist'.sent = hist.sent /\ hist'.calls = hist.calls]_vars

\* an update of another chat has been handled while a name was pending, the
\* surveillance was paused or a session was recorded
C10_Witness ==
  \E i \in 1..Len(updates) :
    /\ Unauthorized(updates[i])
    /\ hist.handled[i] = 1
    /\ bot.last_update_id > i
    /\ bot.pending_add_name # NoText \/ sys.paused \/ rec.recording

\* the handler at which the poll thread stands rejects its command: /add or
\* /remove without a name, /remove of a name that is not known, or a
\* command that does not exist
Rejecting ==
  \/ pc["cmd"] = "c_add" /\ poll.arg = NoText
  \/ pc["cmd"] = "c_remove" /\ (poll.arg = NoText \/ poll.arg \notin disk.known_faces)
  \/ pc["cmd"] = "c_unknown"

\* the answer to a rejected command
Rejection ==
  IF pc["cmd"] = "c_add" THEN "add_usage"
  ELSE IF pc["cmd"] = "c_unknown" THEN "unknown_command"
  ELSE IF poll.arg = NoText THEN "remove_usage" ELSE "not_found"

\* C26: a command of the owner that is rejected is answered by one message,
\* the rejection, and changes nothing else: the pending name, the pause
\* flag, the known faces and the recorder are as before and no callback is
\* called; once the cursor has passed a command that is invalid whatever
\* the state, exactly that one message has been sent for it.
C26_RejectionOnly ==
  /\ [][(Rejecting /\ pc'["cmd"] \notin {pc["cmd"], "c_exit"})
          => /\ hist'.sent = [hist.sent EXCEPT ![poll.idx] = Append(@, Rejection)]
             /\ hist'.calls = hist.calls
             /\ pc'["cmd"] = "c_adv"
             /\ UNCHANGED <<bot, sys, rec, disk, lg, trk>>]_vars
  /\ [](\A i \in 1..Len(updates) :
         (/\ ~Unauthorized(updates[i]) /\ ~updates[i].photo
          /\ updates[i].text \in {T_add, T_remove, T_bogus}
          /\ bot.last_update_id > i)
           => /\ Len(hist.sent[i]) = 1
              /\ hist.sent[i][1] \in {"add_usage", "remove_usage", "unknown_command"}
              /\ hist.calls[i] = <<>>)

\* /add bob, then /remove bob while bob is not known: the removal has been
\* rejected, and bob is still pending
C26_Witness ==
  /\ Len(updates) = 2
  /\ updates[2].text = T_remove_bob
  /\ hist.sent[2] = <<"not_found">>
  /\ bot.pending_add_name = T_bob
  /\ bot.last_update_id = 3

\* the name that a payload carries inline: its caption is the add command
\* followed by a name (lines 102-103)
InlineOf(u) ==
  LET caption == Strip(u.caption)
  IN  IF StartsWith(caption, T_add_sp) /\ WordCount(caption) > 1
        THEN SplitMax1(caption)[2] ELSE NoText

\* update u is a payload of the authorized sender
OwnerPhoto(u) == u.photo /\ ~Unauthorized(u)

Count(seq, x) == Cardinality({k \in 1..Len(seq) : seq[k] = x})

\* the step of the poll thread that leaves control point l
Leaves(l) == pc["cmd"] = l /\ pc'["cmd"] \notin {l, "c_exit"}

\* C11: a payload handled while a name is pending is stored under that name,
\* the add-identity callback fires and the slot is cleared; a payload that
\* arrives with no pending name and no inline name changes nothing, sends
\* nothing and calls nothing.
C11_RegistersPendingOnce ==
  [][/\ Leaves("c_photo")
        => /\ disk'.known_faces = disk.known_faces \cup {bot.pending_add_name}
           /\ hist'.calls[poll.idx] = Append(hist.calls[poll.idx], "on_add_face")
           /\ bot'.pending_add_name = NoText
     /\ (Leaves("c_update") /\ OwnerPhoto(updates[poll.idx])
           /\ bot.pending_add_name = NoText /\ InlineOf(updates[poll.idx]) = NoText)
        => /\ pc'["cmd"] = "c_adv"
           /\ bot' = bot /\ sys' = sys /\ disk' = disk /\ rec' = rec
           /\ hist'.sent = hist.sent /\ hist'.calls = hist.calls]_vars

\* C11 (amended): a payload of the authorized sender is handed to the
\* registration when it carries an inline name, which becomes the pending
\* name, or when a name is pending.  The registration clears the slot in
\* every case; when the photo is fetched and saved it is stored under that
\* name, the operator is told and the add-identity callback fires once;
\* otherwise nothing is stored and the callback is not called.  No update
\* makes the callback fire twice.  A payload with no pending name, no inline
\* name and no command in its caption changes nothing, sends nothing and
\* calls nothing.
C11_RegistersOnceWhenSaved ==
  /\ [](\A i \in 1..Len(updates) : Count(hist.calls[i], "on_add_face") <= 1)
  /\ [][/\ Leaves("c_photo")
           => /\ bot'.pending_add_name = NoText
              /\ bot.pending_add_name # NoText
              /\ \/ /\ disk'.known_faces = disk.known_faces \cup {bot.pending_add_name}
                    /\ hist'.calls[poll.idx] = Append(hist.calls[poll.idx], "on_add_face")
                    /\ hist'.sent[poll.idx] = Append(hist.sent[poll.idx], "face_added")
                 \/ /\ disk' = disk
                    /\ hist'.calls = hist.calls
                    /\ hist'.sent[poll.idx] \in
                         {hist.sent[poll.idx], Append(hist.sent[poll.idx], "photo_failed")}
        /\ (Leaves("c_update") /\ OwnerPhoto(updates[poll.idx]))
           => LET u == updates[poll.idx]
              IN  IF InlineOf(u) # NoText
                    THEN pc'["cmd"] = "c_photo" /\ bot'.pending_add_name = InlineOf(u)
                  ELSE IF bot.pending_add_name # NoText
                    THEN pc'["cmd"] = "c_photo" /\ bot' = bot
                  ELSE ~StartsWith(Strip(u.caption), T_slash)
                         => /\ pc'["cmd"] = "c_adv"
                            /\ bot' = bot /\ sys' = sys /\ disk' = disk /\ rec' = rec
                            /\ hist'.sent = hist.sent /\ hist'.calls = hist.calls]_vars

\* the operator has named bob, the next update was a payload without a
\* caption, and it has been registered under that name
C11_Witness ==
  /\ Len(updates) = 2
  /\ updates[1] = Msg(OwnerChat, T_add_bob, NoText, FALSE)
  /\ updates[2] = Msg(OwnerChat, NoText, NoText, TRUE)
  /\ hist.sent[1] = <<"send_a_photo">>
  /\ hist.calls[2] = <<"on_add_face">>
  /\ T_bob \in disk.known_faces
  /\ bot.pending_add_name = NoText
  /\ bot.last_update_id = 3

-----------------------------------------------------------------------------
(* The poll loop alone, under the operator's messages: it runs for ever on *)
(* its own schedule (telegram_bot.py:70-78)                                *)

\* a caption that names a face in a directory that does not exist
T_add_a_b == T_add_sp \o <<"a", "/", "b">>

\* the add command in capitals, with a name
T_ADD_bob == <<"/", "A", "D", "D", " ">> \o T_bob

PollMsgs ==
  {Msg(OwnerChat, t, NoText, FALSE) : t \in {T_help, T_list, T_add_bob, T_stop_at}}
    \cup {Msg(OwnerChat, NoText, t, TRUE) : t \in {NoText, T_add_a_b, T_ADD_bob}}

\* the steps of the poll thread, but for the call of _handle_update
PollSteps ==
  \/ poll_while \/ poll_get \/ poll_adv \/ poll_except
  \/ c_help \/ c_list \/ c_add \/ c_stop \/ c_photo

NextPoll ==
  \/ \E m \in PollMsgs : Arrive(m)
  \/ _handle_update
  \/ PollSteps

\* The thread is scheduled as long as it can take a step.  _handle_update
\* is enabled exactly at c_update and is the only step that leaves it, so its
\* weak fairness is stated as: the thread does not stay there for ever.
SpecPoll ==
  Init /\ [][NextPoll]_vars /\ WF_vars(PollSteps) /\ []<>(pc["cmd"] # "c_update")

\* C14: every update that has arrived is eventually handed to
\* _handle_update, whatever happened to the updates before it.
C14_EveryUpdateDispatched ==
  \A i \in UpdateIds : (Len(updates) >= i) ~> (hist.handled[i] > 0)

\* a text with the command name that begins it in lower case and without
\* its routing suffix: /StoP@cam x is /stop x
Plain(text) ==
  LET t == Strip(text)
  IN  IF StartsWith(t, T_slash)
        THEN CmdOf(t) \o (IF ArgOf(t) # NoText THEN <<" ">> \o ArgOf(t) ELSE <<>>)
        ELSE text

PlainMsg(u) == [u EXCEPT !.text = Plain(u.text), !.caption = Plain(u.caption)]

\* C15: an update is routed as the update that carries the plain form of
\* its command is: to the same handler, with the same argument and the same
\* pending name, in its text and in its caption.
C15_VariantsRouteAlike ==
  [][Leaves("c_update")
       => LET r == Route(PlainMsg(updates[poll.idx]), bot.pending_add_name)
          IN  /\ pc'["cmd"] = r.to
              /\ poll'.arg = r.arg
              /\ bot'.pending_add_name = r.pending]_vars

-----------------------------------------------------------------------------
(* The operator names faces: /add with a name, twice or with other         *)
(* commands in between, then a photo                                       *)

T_eve == <<"e", "v", "e">>
T_add_eve == T_add_sp \o T_eve

NamingMsgs ==
  {Msg(OwnerChat, t, NoText, FALSE) : t \in {T_add_bob, T_add_eve, T_add, T_help}}
    \cup {Msg(OwnerChat, NoText, NoText, TRUE)}

ArriveNaming(m) ==
  /\ Len(updates) < MaxNamings
  /\ updates' = Append(updates, m)
  /\ UNCHANGED <<rec, pc, lv, wake, now, sys, bot, poll, lg, trk, disk, ticks, hist>>

NextNaming ==
  \/ \E m \in NamingMsgs : ArriveNaming(m)
  \/ poll_while \/ poll_get \/ _handle_update \/ poll_adv \/ poll_except
  \/ c_help \/ c_add \/ c_photo

SpecNaming == Init /\ [][NextNaming]_vars

\* the name that the updates before update i leave pending: the name of the
\* latest /add with a name that no photo has followed
RECURSIVE PendingBefore(_)
PendingBefore(i) ==
  IF i <= 1 THEN NoText
  ELSE LET u == updates[i - 1]
       IN  IF u.photo THEN NoText
           ELSE IF u.text = T_add_bob THEN T_bob
           ELSE IF u.text = T_add_eve THEN T_eve
           ELSE PendingBefore(i - 1)

\* C23: one name at most is pending.  When an update is handled for the
\* first time the slot holds the name of the latest /add with a name that
\* no photo has followed, whatever commands came in between; a photo that
\* registers a face registers that name and no other, and empties the slot.
C23_LatestNameOnly ==
  /\ []((pc["cmd"] = "c_update" /\ hist.handled[poll.idx] = 0)
         => bot.pending_add_name = PendingBefore(poll.idx))
  /\ [][disk'.known_faces # disk.known_faces
          => /\ pc["cmd"] = "c_photo"
             /\ PendingBefore(poll.idx) # NoText
             /\ disk'.known_faces = disk.known_faces \cup {PendingBefore(poll.idx)}
             /\ bot'.pending_add_name = NoText]_vars

\* /add bob, /add eve, a photo: eve is registered, bob is not
C23_Witness ==
  /\ Len(updates) = 3
  /\ updates[1].text = T_add_bob /\ updates[2].text = T_add_eve /\ updates[3].photo
  /\ disk.known_faces = {T_eve}
  /\ hist.calls[3] = <<"on_add_face">>
  /\ bot.pending_add_name = NoText
  /\ bot.last_update_id = 4

-----------------------------------------------------------------------------
(* The operator pauses and resumes the surveillance, and records           *)

PauseMsgs == {Msg(OwnerChat, t, NoText, FALSE) : t \in {T_stop, T_start, T_record}}

\* the frames seen meanwhile show one person
PauseFrames == {<<Box(0, 0)>>}

\* time passes up to the first reminder
TickPause == Clock(MaxRestartTicks)

NextPause ==
  \/ \E m \in PauseMsgs : Arrive(m)
  \/ poll_while \/ poll_get \/ _handle_update \/ poll_adv
  \/ c_start \/ c_stop \/ c_rec_reply
  \/ _on_record_start \/ start
  \/ \E t \in Timers :
       \/ rl_while(t) \/ rl_sleep(t) \/ rl_chk(t) \/ rl_elapsed(t) \/ rl_interval(t)
       \/ rl_inc_rd(t) \/ rl_inc_wr(t) \/ rl_lrt(t) \/ rl_ack(t)
       \/ rl_dur1(t) \/ rl_dur2(t) \/ rl_dur3(t) \/ rl_max(t) \/ rl_remind(t)
  \/ record_frame \/ rf_isrec \/ write_frame
  \/ \E boxes \in PauseFrames : process_frame(boxes)
  \/ process_paused
  \/ TickPause

SpecPause == Init /\ [][NextPause]_vars

\* C24: /stop and /start change the two flags and nothing else, and the
\* bot's flag is the negation of the system's pause flag in every state; a
\* frame cycle that finds the surveillance paused runs no face check and
\* leaves the tracker, the logger and their histories as they were.
C24_PauseOnlyFlag ==
  /\ [](bot.surveillance_active = ~sys.paused)
  /\ [][/\ (pc["cmd"] \in {"c_stop", "c_start"} /\ pc'["cmd"] # pc["cmd"])
           => /\ sys' = [sys EXCEPT !.paused = (pc["cmd"] = "c_stop")]
              /\ bot' = [bot EXCEPT !.surveillance_active = (pc["cmd"] = "c_start")]
              /\ UNCHANGED <<rec, lg, trk, disk, updates, wake, now>>
              /\ \A th \in Threads \ {"cmd"} : pc'[th] = pc[th]
        /\ (sys.paused /\ sys'.frames_processed # sys.frames_processed)
           => /\ sys'.face_checks = sys.face_checks
              /\ sys'.paused
              /\ UNCHANGED <<rec, lg, trk, disk, bot, hist>>]_vars

\* paused before the session was started and never resumed: the session
\* has received a frame and a reminder, a frame cycle has been skipped, and
\* the poll thread has handled both commands
C24_Witness ==
  /\ Len(updates) = 2 /\ updates[1].text = T_stop /\ updates[2].text = T_record
  /\ sys.paused /\ ~bot.surveillance_active
  /\ sys.frames_processed > 0 /\ sys.face_checks = 0
  /\ hist.written[1] > 0
  /\ Len(hist.reminders) > 0
  /\ bot.last_update_id = 3

-----------------------------------------------------------------------------
(* The logger under detections at any times *)

\* seconds between two detections
LogDelays == {10, 30, 300}
TickLog == Pass(LogDelays)

NextLog ==
  \/ \E name \in Names : LogEvent(name)
  \/ main_raise \/ sys_stop_isrec \/ main_exit
  \/ TickLog

SpecLog == Init /\ [][NextLog]_vars

-----------------------------------------------------------------------------
(* The tracker under frames at any times *)

\* seconds between two frames
TrkDelays == {1, 4}
TickTrk == Pass(TrkDelays)

NextTrk ==
  \/ \E boxes \in Frames : process_frame(boxes)
  \/ TickTrk

SpecTrk == Init /\ [][NextTrk]_vars

-----------------------------------------------------------------------------
(* Properties of the recorder *)

\* C1: when the timer's auto-stop and an operator stop race on one session,
\* the file is finalized exactly once: the writer of a session is released
\* at most once, at most one call of stop() returns the session's path, and
\* no call fails.
C1_FinalizedOnce ==
  /\ \A s \in Sessions : hist.released[s] <= 1 /\ hist.stopret[s] <= 1
  /\ \A e \in hist.errors : e[2] # "stop"

\* C2: a /record handled while a session is active allocates no file and no
\* writer, leaves the recorder's attributes as they are, returns None, and
\* the operator is told that a recording is already active (unless the
\* process ends while the command is handled).
C2_StartWhileActive ==
  [][/\ (pc["cmd"] = "ors_chk" /\ rec.recording /\ pc'["cmd"] \notin {"ors_chk", "c_exit"})
        => /\ pc'["cmd"] = "c_rec_reply"
           /\ lv'["cmd"].result = None
           /\ rec' = rec
           /\ hist'.nsessions = hist.nsessions
           /\ hist'.opened = hist.opened
     /\ (pc["cmd"] = "c_rec_reply" /\ lv["cmd"].result = None
           /\ pc'["cmd"] \notin {"c_rec_reply", "c_exit"})
        => /\ hist'.sent[poll.idx] = Append(hist.sent[poll.idx], "already_recording")
           /\ rec' = rec
           /\ hist'.nsessions = hist.nsessions
           /\ hist'.opened = hist.opened]_vars

\* a /record found the session of an earlier /record active and is answered
C2_Witness ==
  /\ rec.recording /\ hist.nsessions = 1 /\ sys.frame_size
  /\ \E i \in UpdateIds : hist.sent[i] = <<"already_recording">>
  /\ \E i \in UpdateIds : hist.sent[i] = <<"recording_started">>

\* the reminders and the auto-stop notices sent during session s
RemindersOf(s) == {i \in 1..Len(hist.reminders) : hist.reminders[i].session = s}
NoticesOf(s) == {i \in 1..Len(hist.notices) : hist.notices[i].session = s}

\* C3: a session that is never acknowledged and never stopped by the
\* operator gets reminder 1 one first interval after its start, reminder 2
\* one follow-up interval later, each once, is auto-stopped one more
\* follow-up interval later, once, and gets no reminder numbered 3 or more.
C3_ReminderSchedule ==
  \A s \in Sessions :
    (hist.started[s] # None /\ s \notin hist.acked /\ s \notin hist.opstop) =>
      /\ \A i \in RemindersOf(s) :
            LET r == hist.reminders[i]
            IN  \/ r.n = 1 /\ r.at = hist.started[s] + first_interval
                \/ r.n = 2 /\ r.at = hist.started[s] + first_interval + followup_interval
      /\ \A i, j \in RemindersOf(s) : hist.reminders[i].n = hist.reminders[j].n => i = j
      /\ \A i \in NoticesOf(s) :
            hist.notices[i].at = hist.started[s] + first_interval + 2 * followup_interval
      /\ Cardinality(NoticesOf(s)) <= 1

\* C4: after an acknowledgment, no reminder and no auto-stop comes before one
\* full first interval has passed since the acknowledgment.
C4_AckPostpones ==
  /\ \A i \in 1..Len(hist.reminders) :
        hist.reminders[i].lastack # None =>
          hist.reminders[i].at >= hist.reminders[i].lastack + first_interval
  /\ \A i \in 1..Len(hist.notices) :
        hist.notices[i].lastack # None =>
          hist.notices[i].at >= hist.notices[i].lastack + first_interval

-----------------------------------------------------------------------------
(* Properties of the logger *)

\* the cooldown of an identity, in seconds
Window(name) == IF name = Unknown THEN unknown_cooldown ELSE known_cooldown

Events == 1..Len(hist.events)
\* the rows of the log and the alert attempts for an identity between two times
RowsIn(name, from, to) ==
  {r \in 1..Len(lg.log) : lg.log[r].name = name /\ lg.log[r].at >= from /\ lg.log[r].at <= to}
AlertsIn(name, from, to) ==
  {a \in 1..Len(hist.alerts) :
     hist.alerts[a].name = name /\ hist.alerts[a].at >= from /\ hist.alerts[a].at <= to}

\* C5, as stated: any two detections of one identity at most one cooldown
\* apart give one row and at most one alert: the first is logged, the
\* second suppressed.
C5_TwoCallsOneRecord ==
  \A i, j \in Events :
    LET e == hist.events[i]
        f == hist.events[j]
    IN  (i < j /\ e.name = f.name /\ f.at - e.at <= Window(e.name)) =>
          /\ e.result = "logged"
          /\ f.result = "suppressed"
          /\ Cardinality(RowsIn(e.name, e.at, f.at)) = 1
          /\ Cardinality(AlertsIn(e.name, e.at, f.at)) <= 1

\* C5, amended: when a detection of an identity is logged, a detection of
\* the same identity at most one cooldown later is suppressed, and the two
\* give one row and at most one alert.
C5_LoggedThenSuppressed ==
  \A i, j \in Events :
    LET e == hist.events[i]
        f == hist.events[j]
    IN  (i < j /\ e.name = f.name /\ f.at - e.at <= Window(e.name) /\ e.result = "logged") =>
          /\ f.result = "suppressed"
          /\ Cardinality(RowsIn(e.name, e.at, f.at)) = 1
          /\ Cardinality(AlertsIn(e.name, e.at, f.at)) <= 1

\* a logged detection is followed, exactly one cooldown later, by a
\* suppressed one
C5_Witness ==
  \E i, j \in Events :
    /\ i < j /\ hist.events[i].name = hist.events[j].name
    /\ hist.events[j].at - hist.events[i].at = Window(hist.events[i].name)
    /\ hist.events[i].result = "logged" /\ hist.events[j].result = "suppressed"

\* the detections that passed the gate, and those that were logged
Passed == {k \in Events : hist.events[k].result # "suppressed"}
Logged == {k \in Events : hist.events[k].result = "logged"}

\* C6: a detection passes the gate exactly when its identity was never
\* logged or was last logged more than its cooldown ago (30 s for Unknown,
\* 300 s for a known identity); each logged detection appends one row; an
\* alert is attempted once per logged Unknown detection, never for a known
\* identity.
C6_GateAndEffects ==
  /\ \A k \in Events :
        k \in Passed <=>
          \A j \in Passed :
            (j < k /\ hist.events[j].name = hist.events[k].name) =>
              hist.events[k].at - hist.events[j].at
                > (IF hist.events[k].name = Unknown THEN 30 ELSE 300)
  /\ Len(lg.log) = Cardinality(Logged)
  /\ \A k \in Logged :
        Cardinality(RowsIn(hist.events[k].name, hist.events[k].at, hist.events[k].at)) = 1
  /\ Len(hist.alerts) = Cardinality({k \in Logged : hist.events[k].name = Unknown})
  /\ \A a \in 1..Len(hist.alerts) :
        /\ hist.alerts[a].name = Unknown
        /\ \E k \in Logged : /\ hist.events[k].name = Unknown
                              /\ hist.events[k].at = hist.alerts[a].at

\* two Unknown detections 40 s apart: two rows, two alerts; and a known
\* identity is logged without an alert
C6_Witness ==
  /\ \E i, j \in Logged :
        /\ hist.events[i].name = Unknown /\ hist.events[j].name = Unknown
        /\ hist.events[j].at - hist.events[i].at = 40
  /\ Cardinality(RowsIn(Unknown, 0, now)) = 2
  /\ Len(hist.alerts) = 2
  /\ \E k \in Logged : hist.events[k].name # Unknown

\* C7: the timestamp of an identity is that of its last detection that
\* passed the gate, whether the snapshot was saved, the alert sent, or not;
\* every alert attempt, failed or not, has its row in the log; and after an
\* alert attempt every detection of the identity within the cooldown is
\* suppressed, so that two attempts are more than one cooldown apart.
C7_StampBeforeAlert ==
  /\ \A k \in Passed :
        (\A j \in Passed : hist.events[j].name = hist.events[k].name => j <= k)
          => lg.last_seen[hist.events[k].name] = hist.events[k].at
  /\ \A a \in 1..Len(hist.alerts) :
        /\ Cardinality(RowsIn(hist.alerts[a].name, hist.alerts[a].at, hist.alerts[a].at)) = 1
        /\ \A k \in Events :
              (/\ hist.events[k].name = hist.alerts[a].name
               /\ hist.events[k].at > hist.alerts[a].at
               /\ hist.events[k].at - hist.alerts[a].at <= Window(hist.alerts[a].name))
                => hist.events[k].result = "suppressed"
        /\ \A b \in 1..Len(hist.alerts) :
              a < b => hist.alerts[b].at - hist.alerts[a].at > Window(hist.alerts[a].name)

\* an alert failed, its detection is in the log, and a later detection of
\* the identity within the cooldown was suppressed
C7_Witness ==
  \E a \in 1..Len(hist.alerts) :
    /\ ~hist.alerts[a].ok
    /\ RowsIn(Unknown, hist.alerts[a].at, hist.alerts[a].at) # {}
    /\ \E k \in Events :
          /\ hist.events[k].name = Unknown
          /\ hist.events[k].at > hist.alerts[a].at
          /\ hist.events[k].at - hist.alerts[a].at <= unknown_cooldown
          /\ hist.events[k].result = "suppressed"

-----------------------------------------------------------------------------
(* Properties of the tracker *)

\* C8, as stated: while the number of boxes stays the same and every box
\* moves less than the threshold from one frame to the next, no recheck is
\* asked for before the interval has passed since the last update.
C8_SteadyFramesNoRecheck ==
  (hist.check.steady /\ hist.check.at - hist.check.since < recheck_interval)
    => ~hist.check.result

\* C8, amended: while the number of boxes is that of the last update and
\* every box is less than the threshold away from a box of the last update,
\* no recheck is asked for until more than the interval has passed since
\* that update.
C8_NearLastUpdateNoRecheck ==
  (hist.check.near /\ hist.check.at - hist.check.since <= recheck_interval)
    => ~hist.check.result

\* a person that has moved, less than the threshold, is not rechecked at the
\* end of the interval
C8_Witness ==
  /\ hist.check.near /\ hist.check.n > 0 /\ ~hist.check.result
  /\ hist.prev # hist.upd.boxes
  /\ hist.check.at - hist.check.since = recheck_interval

\* C9: a call with a number of boxes that differs from that of the last
\* update (0 before any update) returns True, whatever the time and the
\* places of the boxes.
C9_CountChangeForcesRecheck ==
  hist.check.n # hist.check.count => hist.check.result

\* the persons have left at the very time of the last update: a recheck
C9_Witness ==
  /\ hist.check.n = 0 /\ hist.check.count > 0 /\ hist.check.result
  /\ hist.upd.count = 0 /\ hist.upd.at = now

-----------------------------------------------------------------------------
(* Properties of the timers *)

\* timer t has found a session recording (line 119) and acts on it
Acting(t) == pc[t] \notin {"none", "t_while", "t_sleep", "t_chk"}

\* C12: a timer acts only on the session that started it, and at most one
\* timer acts on a session at a time: no timer of an ended session finds a
\* later session recording.
C12_OneTimerPerSession ==
  /\ \A t \in Timers : Acting(t) => lv[t].session = hist.born[t]
  /\ Cardinality({t \in Timers : Acting(t)}) <= 1

-----------------------------------------------------------------------------
(* Properties of the shutdown *)

\* SecuritySystem.stop has returned (main.py:278) and the process has not
\* ended yet
StopReturned == pc["main"] = "m_cleanup"

\* C13: once the system's stop has returned, no update is handed to a
\* command handler any more, no session is recorded and no writer is left
\* open, and no session was finalized twice.
C13_StopIsFinal ==
  /\ [](StopReturned => ~rec.recording /\ rec.writer = None)
  /\ [](\A s \in Sessions : hist.released[s] <= 1)
  /\ [][(StopReturned /\ pc["cmd"] = "c_update")
         => pc'["cmd"] \in {"c_update", "c_adv", "c_exit"}]_vars

-----------------------------------------------------------------------------
(* Properties of stop *)

\* C16: a call of stop that found a session recording returns the path of
\* that session, whose writer it has released once, and leaves the recorder
\* idle; a call that found the recorder idle returns None and changes
\* nothing.
C16_StopContract ==
  [][\A th \in Threads :
       /\ (pc[th] = "s_st" /\ pc'[th] = "s_ret")
          => /\ lv[th].result # None
             /\ hist.released[lv[th].result] = 1
             /\ ~rec'.recording /\ rec'.writer = None /\ rec'.current_file = None
       /\ (pc[th] = "s_chk" /\ pc'[th] = "s_ret")
          => /\ lv'[th].result = None
             /\ rec' = rec /\ hist' = hist /\ disk' = disk]_vars

-----------------------------------------------------------------------------
(* Properties of one firing of the timer *)

\* the labels of a firing, from the store of line 131 to the test of line 138
Firing(t) == pc[t] \in {"t_lrt", "t_ack", "t_dur1", "t_dur2", "t_dur3", "t_max"}

\* C17: a firing that raised the count to max_reminders sends no reminder and
\* goes on to the auto-stop callback, which is called while the session is
\* not yet finalized; when the timer's stop has returned the session has
\* been finalized once, and the timer ends without another poll.
C17_AutoStopOnThird ==
  [][\A t \in Timers :
       /\ (Firing(t) /\ hist.stored[t] = max_reminders)
          => (pc'[t] = pc[t] \/ Firing(t)' \/ pc'[t] = "t_auto_cb")
       /\ (pc[t] = "t_auto_cb" /\ pc'[t] # "t_auto_cb")
          => hist.released[lv[t].session] = 0
       /\ (pc[t] = "s_ret" /\ pc'[t] = "t_break")
          => hist.released[lv[t].session] = 1
       /\ (pc[t] = "t_break" /\ pc'[t] # "t_break") => pc'[t] = "none"]_vars

\* C18: a poll of the timer fires only when the time since
\* last_reminder_time is at least the interval for the present count
\* (first_interval at count 0, followup_interval otherwise); a firing adds
\* exactly one to the count, sets last_reminder_time to now, marks the
\* session unacknowledged and calls the reminder callback with the count it
\* stored and the duration of the session; a poll that does not fire, or
\* finds the session no longer recording, changes nothing of the session
\* and calls nothing.
C18_FiringEffect ==
  [][\A t \in Timers :
       /\ (pc[t] = "t_interval" /\ pc'[t] = "t_inc_rd")
          => now - rec.last_reminder_time >=
               (IF rec.reminder_count = 0 THEN first_interval ELSE followup_interval)
       /\ (pc[t] = "t_inc_wr" /\ pc'[t] = "t_lrt")
          => rec'.reminder_count = rec.reminder_count + 1
       /\ (pc[t] = "t_lrt" /\ pc'[t] = "t_ack") => rec'.last_reminder_time = now
       /\ (pc[t] = "t_ack" /\ pc'[t] = "t_dur1") => ~rec'.reminder_acknowledged
       /\ (pc[t] = "t_remind" /\ pc'[t] = "t_while")
          => /\ Len(hist'.reminders) = Len(hist.reminders) + 1
             /\ hist'.reminders[Len(hist'.reminders)].n = hist.stored[t]
             /\ rec.start_time # None
             /\ hist'.reminders[Len(hist'.reminders)].dur = now - rec.start_time
       /\ (\/ pc[t] = "t_chk" /\ pc'[t] = "none"
           \/ pc[t] = "t_interval" /\ pc'[t] = "t_while")
          => /\ rec' = rec
             /\ hist'.reminders = hist.reminders /\ hist'.notices = hist.notices]_vars

\* C19: in every reachable state, whatever the interleaving of the timers'
\* polls with acknowledgments, starts and stops, reminder_count is within
\* 0..max_reminders.
C19_CountWithinRange == rec.reminder_count \in 0..max_reminders

-----------------------------------------------------------------------------
(* Properties of the frame writes *)

\* a call of stop that has cleared the flag and not yet reset the fields
InStop(th) ==
  pc[th] \in {"s_set", "s_wchk", "s_rel", "s_wnone", "s_res", "s_dur1", "s_dur2",
              "s_cf", "s_fc", "s_st"}

\* C20: a frame is written only while the session is recording, to a
\* writer that has not been released, and adds exactly one to frame_count;
\* write_frame never fails, whatever the interleaving with a stop of the
\* poll thread or of the timer; frame_count is 0 whenever no session is
\* recording and no stop is under way.
C20_WriteOnlyWhileRecording ==
  /\ [](/\ hist.late = {}
        /\ \A e \in hist.errors : e[2] # "write_frame"
        /\ (~rec.recording /\ \A th \in Threads : ~InStop(th)) => rec.frame_count = 0)
  /\ [][/\ (pc["main"] = "w_write" /\ pc'["main"] = "w_inc_rd")
           => (rec.recording /\ hist.released[rec.writer] = 0)
        /\ (pc["main"] = "w_inc_wr" /\ pc'["main"] = "m_loop")
           => rec'.frame_count = rec.frame_count + 1]_vars

-----------------------------------------------------------------------------
(* Properties of the tracker's decision and of its update *)

\* the first slot of tracked, from slot k on, of which the center is
\* strictly less than move_threshold away from that of box; 0 when none is
RECURSIVE RefFirstSlot(_, _, _)
RefFirstSlot(tracked, box, k) ==
  IF k > Len(tracked) THEN 0
  ELSE IF Near(box, tracked[k].bbox) THEN k
  ELSE RefFirstSlot(tracked, box, k + 1)

\* the scan of the boxes in order
RECURSIVE RefScan(_, _, _)
RefScan(t, boxes, time) ==
  IF boxes = <<>> THEN FALSE
  ELSE LET k == RefFirstSlot(t.tracked, Head(boxes), 1)
       IN  IF k = 0 THEN TRUE
           ELSE IF time - t.tracked[k].last_check > recheck_interval THEN TRUE
           ELSE RefScan(t, Tail(boxes), time)

\* the reference decision
RefDecision(t, boxes, time) ==
  IF Len(boxes) # t.last_person_count THEN TRUE
  ELSE IF boxes = <<>> THEN FALSE
  ELSE RefScan(t, boxes, time)

\* C21: every call of needs_face_check returns the reference decision for
\* the tracker's state, the boxes and the time of the call; the boxes it
\* measures against are those stored by the last update; and a call that
\* returns False leaves the tracker as it was.
C21_DecisionIsReference ==
  /\ [](hist.upd.at # None
         => /\ [i \in 1..Len(trk.tracked) |-> trk.tracked[i].bbox] = hist.upd.boxes
            /\ trk.last_person_count = hist.upd.count)
  /\ [][sys'.frames_processed # sys.frames_processed
          => /\ hist'.check.result = RefDecision(trk, hist'.prev, now)
             /\ ~hist'.check.result => trk' = trk]_vars

\* two persons stand where the last update stored them, and the call made
\* more than recheck_interval after it asks for a recheck
C21_Witness ==
  /\ hist.check.n = 2 /\ hist.check.near /\ hist.check.result
  /\ hist.prev = hist.upd.boxes
  /\ hist.check.at = now /\ hist.upd.at = now
  /\ hist.check.at - hist.check.since > recheck_interval

\* C22: after an update the tracked set is exactly the boxes of that update
\* in their order; slot i holds box i, the name and the place of the first
\* face found in it, or None for both when no face was found; all slots
\* carry the time of the update; nothing of the previous set is left, and
\* get_cached returns the slots in that order.
C22_UpdateReplacesAll ==
  hist.upd.at # None =>
    /\ Len(trk.tracked) = Len(hist.upd.boxes)
    /\ Len(hist.upd.faces) = Len(hist.upd.boxes)
    /\ \A i \in 1..Len(trk.tracked) :
         /\ trk.tracked[i].bbox = hist.upd.boxes[i]
         /\ trk.tracked[i].last_check = hist.upd.at
         /\ IF hist.upd.faces[i] # <<>>
              THEN /\ trk.tracked[i].name = Head(hist.upd.faces[i])[1]
                   /\ trk.tracked[i].face_loc = Head(hist.upd.faces[i])[2]
              ELSE /\ trk.tracked[i].name = NoFace
                   /\ trk.tracked[i].face_loc = NoFace
    /\ Len(get_cached(trk)) = Len(hist.upd.boxes)
    /\ \A i \in 1..Len(hist.upd.boxes) :
         get_cached(trk)[i] = <<trk.tracked[i].name, trk.tracked[i].face_loc, hist.upd.boxes[i]>>

\* the previous set held a name; the update stores two boxes, the first
\* with no face, the second with a face found at two places
C22_Witness ==
  /\ hist.upd.at # None /\ hist.upd.hadname
  /\ Len(trk.tracked) = 2
  /\ hist.upd.faces[1] = <<>> /\ Len(hist.upd.faces[2]) = 2
  /\ trk.tracked[1].name = NoFace /\ trk.tracked[2].face_loc = "loc"

-----------------------------------------------------------------------------
(* Properties of the frame cycle under failing external calls *)

\* C25: whatever the snapshot save and the alert do, a detection handed to
\* the logger returns to the capture loop: no exception leaves the frame
\* cycle and the loop is not ended.
C25_FailureKeepsLoop ==
  /\ [](\A e \in hist.errors : e[1] # "main")
  /\ [][Len(hist'.events) > Len(hist.events) => pc'["main"] = "m_loop"]_vars

-----------------------------------------------------------------------------
(* Properties of the answers to /record *)

\* C27: /record is answered 'already recording' only when a session is
\* active at the time of the command: a /record that is refused because no
\* frame has been seen yet (frame_size not set) is not answered so.
C27_AlreadyRecordingIsTrue ==
  [][(/\ pc["cmd"] = "c_rec_reply" /\ pc'["cmd"] = "c_adv"
      /\ hist'.sent[poll.idx] = Append(hist.sent[poll.idx], "already_recording"))
       => (sys.frame_size /\ hist.nsessions > 0)]_vars

-----------------------------------------------------------------------------
(* Properties of an acknowledgment against a poll of the timer under way *)

\* C28: once acknowledge_reminder has returned, the session is not
\* auto-stopped before one first interval has passed since then, and a
\* reminder sent before that carries a count that starts again from the
\* reset (0 or 1), not one that goes on from before the acknowledgment.
C28_AckHolds ==
  /\ \A i \in 1..Len(hist.notices) :
        (hist.notices[i].lastack # None /\ hist.notices[i].session \in hist.acked)
          => hist.notices[i].at - hist.notices[i].lastack >= first_interval
  /\ \A i \in 1..Len(hist.reminders) :
        (/\ hist.reminders[i].lastack # None
         /\ hist.reminders[i].at - hist.reminders[i].lastack < first_interval)
          => hist.reminders[i].n <= 1

-----------------------------------------------------------------------------
(* Properties of the cursor of the poll loop *)

\* C29: no update is handed to _handle_update more than once, also when
\* its handler has raised: the cursor is past every update that has been
\* handled and is not being handled now.
C29_HandledAtMostOnce ==
  \A i \in 1..Len(updates) :
    /\ hist.handled[i] <= 1
    /\ (hist.handled[i] > 0 /\ ~(poll.idx = i /\ pc["cmd"] \notin {"c_poll", "c_get"}))
         => bot.last_update_id > i

-----------------------------------------------------------------------------
(* Properties of the auto-stop notice *)

\* C30: the auto-stop notice is sent only for a session that nobody has
\* finalized yet, and the stop that the timer calls after the notice
\* returns the path of that session.
C30_NoticeMeansTimerStopped ==
  [][\A t \in Timers :
       /\ (pc[t] = "t_auto_cb" /\ pc'[t] = "s_chk")
          => /\ hist.released[lv[t].session] = 0
             /\ hist.stopret[lv[t].session] = 0
       /\ (pc[t] = "s_ret" /\ pc'[t] = "t_break")
          => lv[t].result = lv[t].session]_vars


\* C31: a suppressed detection changes nothing: the logger keeps the
\* timestamp of its identity, which is that of an earlier detection that
\* passed the gate at most one cooldown before, no row is appended, no alert
\* is attempted and the capture loop goes on; and a detection of one
\* identity, logged or suppressed, changes neither the timestamp nor the
\* gate decision of any other identity.
C31_SuppressedChangesNothing ==
  [][Len(hist'.events) = Len(hist.events) + 1 =>
       LET e == hist'.events[Len(hist'.events)]
       IN  /\ e.result = "suppressed" =>
                /\ lg' = lg
                /\ hist'.alerts = hist.alerts
                /\ pc' = pc
                /\ \E k \in Passed :
                      /\ hist.events[k].name = e.name
                      /\ hist.events[k].at = lg'.last_seen[e.name]
                      /\ e.at - hist.events[k].at <= Window(e.name)
           /\ \A other \in Names \ {e.name} :
                /\ lg'.last_seen[other] = lg.last_seen[other]
                /\ _should_log(lg', other, now') <=> _should_log(lg, other, now)]_vars

\* an identity is logged, detected again within its cooldown and suppressed,
\* and logged once more at a time that is more than one cooldown after the
\* first detection but not after the second
C31_Witness ==
  \E i, j, k \in Events :
    /\ i < j /\ j < k
    /\ hist.events[i].name = hist.events[j].name
    /\ hist.events[j].name = hist.events[k].name
    /\ hist.events[i].result = "logged"
    /\ hist.events[j].result = "suppressed"
    /\ hist.events[k].result = "logged"
    /\ hist.events[k].at - hist.events[i].at > Window(hist.events[i].name)
    /\ hist.events[k].at - hist.events[j].at <= Window(hist.events[i].name)
    /\ lg.last_seen[hist.events[k].name] = hist.events[k].at


\* C32: between the calls of the tracker, whatever frames it has been given,
\* the number of tracked slots is the stored person count, and each slot
\* has both a name and a face location or neither.
C32_SlotsMatchCount ==
  /\ Len(trk.tracked) = trk.last_person_count
  /\ \A i \in 1..Len(trk.tracked) :
        (trk.tracked[i].name = NoFace) <=> (trk.tracked[i].face_loc = NoFace)

\* after a first update with another number of persons, an update has
\* stored two slots, the first with a face and the second without, and a
\* later call of needs_face_check has returned False
C32_Witness ==
  /\ sys.face_checks >= 2
  /\ trk.last_person_count = 2
  /\ trk.tracked[1].name # NoFace /\ trk.tracked[1].face_loc # NoFace
  /\ trk.tracked[2].name = NoFace /\ trk.tracked[2].face_loc = NoFace
  /\ ~hist.check.result

=============================================================================
